---- MODULE Spec2Model ----
(***************************************************************************)
(* CloudHelm cost engine: raw cost records, the aggregate store, the       *)
(* budget projector, the forecaster and the cost anomaly detector; the     *)
(* service-health side: metric snapshots, the metric anomaly detectors,    *)
(* the health score; and the assistant's /run command.                     *)
(*                                                                         *)
(* Money is counted in whole units of the sixth decimal (the stores are    *)
(* Numeric(18, 6)); a date is a day number.  Python's None is NULL.        *)
(***************************************************************************)
EXTENDS Integers, Sequences, FiniteSets, Bags, TLC

VARIABLES
    raw,      \* cloud_cost table: a bag of raw cost records
    agg,      \* cost_agg table: a bag of aggregate rows
    anoms,    \* cost_anomalies table: a bag of CostAnomaly rows
    ecod,     \* what the ECOD detector and the store's row order answer for the
              \* aggregate store as it is
    budgets,  \* budgets table: the Budget rows
    today,    \* date.today()
    call,     \* the last operation: its name, arguments and result
    repeat,   \* TRUE when the last operation repeated the one before it
    metrics,  \* service_metrics table: the ServiceMetric snapshots
    manoms,   \* metrics_anomalies table: a bag of MetricsAnomaly rows
    detector, \* the fitted state of the shared AnomalyDetectionService models
    procs,    \* the invocations in flight: position and locals of each
    spawned   \* the programs started by /run requests

vars == <<raw, agg, anoms, ecod, budgets, today, call, repeat,
          metrics, manoms, detector, procs, spawned>>

\* the cost engine's tables and clock
costVars == <<raw, agg, anoms, ecod, budgets, today>>

\* the service-health tables, the invocations in flight and the shell
otherVars == <<metrics, manoms, detector, procs, spawned>>

\* ---------------------------------------------------------------- bounds
MaxRaw == 2
MaxDate == 2

\* ---------------------------------------------------------------- values
NULL == "<None>"
\* `start_date: Optional[date] = None`: the absent date
NoDate == 0
Dates == 1..MaxDate
Clouds == {"aws"}
RawTeams == {NULL, "*", "eng"}
RawServices == {"api"}
RawRegions == {"us"}
RawEnvs == {"prod"}
\* two distinct positive amounts, so that a sum differs from a count
Amounts == {1, 2}

\* CloudCost rows an export can produce (cost_ingestion keeps cost > 0).
CloudCost ==
    [ts_date : Dates, cloud : Clouds, team : RawTeams, service : RawServices,
     region : RawRegions, env : RawEnvs, cost_amount : Amounts]

\* ---------------------------------------------------------------- bags
BagSize(b) == BagCardinality(b)

BagAdd(b, x) == b (+) SetToBag({x})

BagRemove(b, x) == b (-) SetToBag({x})

RECURSIVE SumOver(_, _)
\* sum of f[x] over the finite set S
SumOver(S, f) ==
    IF S = {} THEN 0
    ELSE LET x == CHOOSE y \in S : TRUE
         IN  f[x] + SumOver(S \ {x}, f)

\* ---------------------------------------------------------------- aggregation
\* Python truthiness of an optional string: None and '' are falsy.
Falsy(x) == x = NULL \/ x = ""

\* `cost.team or '*'`
Wild(x) == IF Falsy(x) THEN "*" ELSE x

\* `None if row['team'] == '*' else row['team']`
Unwild(x) == IF x = "*" THEN NULL ELSE x

\* One row of the DataFrame built from a CloudCost record.
DataRow(c) ==
    [ts_date |-> c.ts_date, cloud |-> c.cloud, team |-> Wild(c.team),
     service |-> Wild(c.service), region |-> Wild(c.region), env |-> Wild(c.env)]

\* The CostAggregate key a DataFrame group is looked up and stored under.
AggKey(g) ==
    [ts_date |-> g.ts_date, cloud |-> g.cloud, team |-> Unwild(g.team),
     service |-> Unwild(g.service), region |-> Unwild(g.region), env |-> Unwild(g.env)]

\* The key columns of a CostAggregate row.
KeyOf(r) ==
    [ts_date |-> r.ts_date, cloud |-> r.cloud, team |-> r.team,
     service |-> r.service, region |-> r.region, env |-> r.env]

CostAggregate(k, total) ==
    [ts_date |-> k.ts_date, cloud |-> k.cloud, team |-> k.team,
     service |-> k.service, region |-> k.region, env |-> k.env, total_cost |-> total]

MinDate(r) == CHOOSE d \in {c.ts_date : c \in BagToSet(r)} :
                 \A c \in BagToSet(r) : d <= c.ts_date

MaxDateOf(r) == CHOOSE d \in {c.ts_date : c \in BagToSet(r)} :
                 \A c \in BagToSet(r) : d >= c.ts_date

\* A selection that forgets the lower end of the range.
InRangeOpenStart(r, start, end) == {c \in BagToSet(r) : c.ts_date <= end}

\* CloudCost rows with start <= ts_date <= end
InRange(r, start, end) == {c \in BagToSet(r) : c.ts_date >= start /\ c.ts_date <= end}

\* df.groupby([...])['cost_amount'].sum(): the groups, and each group's sum
Groups(r, start, end) == {DataRow(c) : c \in InRange(r, start, end)}

\* A sum that counts equal line items once.
GroupSumDistinct(r, start, end, g) ==
    LET members == {c \in InRange(r, start, end) : DataRow(c) = g}
    IN  SumOver(members, [c \in members |-> c.cost_amount])

GroupSum(r, start, end, g) ==
    LET members == {c \in InRange(r, start, end) : DataRow(c) = g}
    IN  SumOver(members, [c \in members |-> r[c] * c.cost_amount])

\* A lookup that compares a NULL column with `=` the way SQL does: never equal.
ExistingSqlNull(a, k) ==
    {row \in BagToSet(a) : KeyOf(row) = k /\ NULL \notin {k.team, k.service, k.region, k.env}}

\* `existing = db.query(CostAggregate).filter(...).first()`: the rows matching the
\* key (SQLAlchemy renders `column == None` as IS NULL)
Existing(a, k) == {row \in BagToSet(a) : KeyOf(row) = k}

RECURSIVE Upsert(_, _, _, _, _)
\* the loop over grouped.iterrows(): st = [agg, updated, inserted]
Upsert(st, todo, r, start, end) ==
    IF todo = {} THEN st
    ELSE LET g == CHOOSE x \in todo : TRUE
             k == AggKey(g)
             total == GroupSum(r, start, end, g)
             found == Existing(st.agg, k)
             next ==
                 IF found # {}
                 THEN LET existing == CHOOSE row \in found : TRUE
                      IN  [agg |-> BagAdd(BagRemove(st.agg, existing),
                                          CostAggregate(k, total)),
                           updated |-> st.updated + 1, inserted |-> st.inserted]
                 ELSE [agg |-> BagAdd(st.agg, CostAggregate(k, total)),
                       updated |-> st.updated, inserted |-> st.inserted + 1]
         IN  Upsert(next, todo \ {g}, r, start, end)

\* Lines 31-53: the range the call works on, <<start, end>>, or NoRange when
\* it returns 0 before reading any group (no CloudCost row at all, or none in range).
NoRange == <<>>

ResolveRange(r, start_date, end_date) ==
    IF (start_date = NoDate \/ end_date = NoDate) /\ BagToSet(r) = {}
    THEN NoRange
    ELSE LET start == IF start_date = NoDate THEN MinDate(r) ELSE start_date
             end == IF end_date = NoDate THEN MaxDateOf(r) ELSE end_date
         IN  IF InRange(r, start, end) = {} THEN NoRange ELSE <<start, end>>

\* recompute_cost_aggregates(db, start_date, end_date): the store it leaves
\* and the count it returns
recompute_cost_aggregates(r, a, start_date, end_date) ==
    LET range == ResolveRange(r, start_date, end_date)
    IN  IF range = NoRange
        THEN [agg |-> a, updated |-> 0, inserted |-> 0, ret |-> 0]
        ELSE LET st == Upsert([agg |-> a, updated |-> 0, inserted |-> 0],
                              Groups(r, range[1], range[2]), r, range[1], range[2])
             IN  [agg |-> st.agg, updated |-> st.updated, inserted |-> st.inserted,
                  ret |-> st.updated + st.inserted]

\* ---------------------------------------------------------------- actions
NoCall == [op |-> "none"]

\* no detector answer: nothing flagged, nothing raised
NoOracle == [flagged |-> {}, failing |-> {}, rank |-> <<>>]

\* no detector fit yet
NoFit == [iso |-> "<None>", ecod |-> "<None>"]

\* nothing on the service-health side, nothing in flight, nothing started
OthersIdle ==
    /\ metrics = {}
    /\ manoms = EmptyBag
    /\ detector = NoFit
    /\ procs = <<>>
    /\ spawned = {}

\* An upload stores one more CloudCost row.
Ingest(c) ==
    /\ BagSize(raw) < MaxRaw
    /\ raw' = BagAdd(raw, c)
    /\ call' = [op |-> "ingest"]
    /\ repeat' = FALSE
    /\ UNCHANGED <<agg, anoms, ecod, budgets, today>>
    /\ UNCHANGED otherVars

\* POST /recompute-aggregates.  call keeps the range the call worked on and the
\* count it returned; repeat says the call before it was the same call.
RecomputeAggregates(start_date, end_date) ==
    LET res == recompute_cost_aggregates(raw, agg, start_date, end_date)
        range == ResolveRange(raw, start_date, end_date)
    IN  /\ agg' = res.agg
        /\ call' = [op |-> "recompute", range |-> range, ret |-> res.ret]
        /\ repeat' = (call.op = "recompute" /\ call.range = range)
        /\ UNCHANGED <<raw, anoms, ecod, budgets, today>>
        /\ UNCHANGED otherVars

Init ==
    /\ raw = EmptyBag
    /\ agg = EmptyBag
    /\ anoms = EmptyBag
    /\ ecod = NoOracle
    /\ budgets = {}
    /\ today = 1
    /\ call = NoCall
    /\ repeat = FALSE
    /\ OthersIdle

Next ==
    \/ \E c \in CloudCost : Ingest(c)
    \/ \E s \in Dates \cup {NoDate}, e \in Dates \cup {NoDate} : RecomputeAggregates(s, e)

Spec == Init /\ [][Next]_vars

\* ---------------------------------------------------------------- calendar
\* Dates are day numbers of one (non-leap) year: 1 is January 1.
\* monthrange(year, month)[1]
DaysInMonth(m) ==
    IF m = 2 THEN 28 ELSE IF m \in {4, 6, 9, 11} THEN 30 ELSE 31

\* the days of the year before month m
DaysBefore(m) == <<0, 31, 59, 90, 120, 151, 181, 212, 243, 273, 304, 334>>[m]

\* date(year, m, d)
Date(m, d) == DaysBefore(m) + d

\* date.month
MonthOf(d) == CHOOSE m \in 1..12 : DaysBefore(m) < d /\ d <= DaysBefore(m) + DaysInMonth(m)

\* date.day
DayOf(d) == d - DaysBefore(MonthOf(d))

\* ---------------------------------------------------------------- budget projector
\* An amount that need not be whole: num / den, den > 0.
Ratio(num, den) == [num |-> num, den |-> den]

\* The status drawn one tenth too late: thresholds 1.0 and 1.2 of the budget.
BudgetStatusLate(projected_cost, budget_amount) ==
    IF projected_cost.num < budget_amount * projected_cost.den THEN "UNDER"
    ELSE IF 10 * projected_cost.num <= 12 * budget_amount * projected_cost.den THEN "AT_RISK"
    ELSE "OVER"

\* Lines 166-173: projected < 0.9 * budget, projected <= 1.1 * budget, else
BudgetStatus(projected_cost, budget_amount) ==
    IF 10 * projected_cost.num < 9 * budget_amount * projected_cost.den THEN "UNDER"
    ELSE IF 10 * projected_cost.num <= 11 * budget_amount * projected_cost.den THEN "AT_RISK"
    ELSE "OVER"

\* A projection that forgets to scale the daily rate to the month.
ProjectedCostDaily(mtd_cost, days_passed, days_in_month) ==
    IF days_passed > 0 THEN Ratio(mtd_cost, days_passed) ELSE Ratio(0, 1)

\* Lines 160-164: (mtd_cost / days_passed) * days_in_month, or 0
ProjectedCost(mtd_cost, days_passed, days_in_month) ==
    IF days_passed > 0 THEN Ratio(mtd_cost * days_in_month, days_passed) ELSE Ratio(0, 1)

\* A month-to-date sum that takes every service of the team, scoped or not.
MtdCostTeamWide(a, budget, month_start, current_day) ==
    LET rows == {row \in BagToSet(a) :
                    /\ row.ts_date >= month_start
                    /\ row.ts_date <= current_day
                    /\ row.team = budget.team}
    IN  SumOver(rows, [row \in rows |-> a[row] * row.total_cost])

\* Lines 146-158: the month-to-date sum of the budget's aggregate rows
MtdCost(a, budget, month_start, current_day) ==
    LET rows == {row \in BagToSet(a) :
                    /\ row.ts_date >= month_start
                    /\ row.ts_date <= current_day
                    /\ row.team = budget.team
                    /\ ~Falsy(budget.service) => row.service = budget.service}
    IN  SumOver(rows, [row \in rows |-> a[row] * row.total_cost])

\* get_budget_statuses(db, month): one BudgetStatusResponse per Budget row
get_budget_statuses(a, bs, month, now) ==
    LET m == IF month = NoDate THEN now ELSE month
        month_start == Date(MonthOf(m), 1)
        days_in_month == DaysInMonth(MonthOf(m))
        month_end == Date(MonthOf(m), days_in_month)
        current_day == IF MonthOf(now) = MonthOf(m) THEN now ELSE month_end
        days_passed == DayOf(current_day)
    IN  [budget \in bs |->
            LET mtd_cost == MtdCost(a, budget, month_start, current_day)
                projected_cost == ProjectedCost(mtd_cost, days_passed, days_in_month)
            IN  [team |-> budget.team, service |-> budget.service,
                 monthly_budget |-> budget.monthly_budget_amount,
                 mtd_cost |-> mtd_cost, projected_cost |-> projected_cost,
                 days_passed |-> days_passed, days_in_month |-> days_in_month,
                 status |-> BudgetStatus(projected_cost, budget.monthly_budget_amount)]]

\* GET /budgets/status
GetBudgetStatuses(month) ==
    /\ call' = [op |-> "budget_statuses", month |-> month,
                results |-> get_budget_statuses(agg, budgets, month, today)]
    /\ repeat' = FALSE
    /\ UNCHANGED <<raw, agg, anoms, ecod, budgets, today>>
    /\ UNCHANGED otherVars

\* The stores the projector is run against.
MaxBudgetRows == 2
MaxBudgets == 1

BudgetDates == {Date(3, 31), Date(4, 10), Date(4, 20)}
BudgetTodays == {Date(4, 10), Date(5, 10)}
\* the budget's team and service, another service of the team, another team
BudgetScopes == {<<"eng", "api">>, <<"eng", "db">>, <<"ops", "api">>}
BudgetTotals == {300, 330}
BudgetAmounts == {900, 1000}

BudgetAggRows ==
    {[ts_date |-> d, cloud |-> "aws", team |-> sc[1], service |-> sc[2],
      region |-> "us", env |-> "prod", total_cost |-> t] :
        d \in BudgetDates, sc \in BudgetScopes, t \in BudgetTotals}

\* sets of aggregate rows with one row per key
UniqueStores(rows, n) ==
    {S \in SUBSET rows :
        /\ Cardinality(S) <= n
        /\ \A r1 \in S, r2 \in S : KeyOf(r1) = KeyOf(r2) => r1 = r2}

\* Budget rows: a team, an optional service, a positive monthly amount
Budget ==
    [team : {"eng"}, service : {NULL, "api"}, monthly_budget_amount : BudgetAmounts]

InitBudget ==
    /\ raw = EmptyBag
    /\ agg \in {SetToBag(S) : S \in UniqueStores(BudgetAggRows, MaxBudgetRows)}
    /\ anoms = EmptyBag
    /\ ecod = NoOracle
    /\ budgets \in {B \in SUBSET Budget : Cardinality(B) <= MaxBudgets}
    /\ today \in BudgetTodays
    /\ call = NoCall
    /\ repeat = FALSE
    /\ OthersIdle

NextBudget == \E month \in BudgetTodays \cup {NoDate} : GetBudgetStatuses(month)

SpecBudget == InitBudget /\ [][NextBudget]_vars

\* ---------------------------------------------------------------- forecaster
\* `timedelta(days=180)`: the training window
ForecastWindowDays == 180
\* `len(aggregates) < 30`, `len(data) < 30`
ForecastMinRows == 30

\* `team = agg.team or "unassigned"`
TeamKey(team) == IF Falsy(team) THEN "unassigned" ELSE team

\* rows of the store as (row, copy) pairs, one per stored row
RowCopies(a) == {rc \in BagToSet(a) \X (1..BagSize(a)) : rc[2] <= a[rc[1]]}

\* the rows a query over [start, end] returns
AggBetween(a, start, end) ==
    {rc \in RowCopies(a) : rc[1].ts_date >= start /\ rc[1].ts_date <= end}

\* LinearRegression().fit(X, y).predict(x), X being day offsets: the least
\* squares line through the points, as a ratio; a flat line through the mean
\* when every point has the same offset.
Predict(points, first_date, x) ==
    LET n == Cardinality(points)
        X(rc) == rc[1].ts_date - first_date
        Y(rc) == rc[1].total_cost
        sx == SumOver(points, [rc \in points |-> X(rc)])
        sy == SumOver(points, [rc \in points |-> Y(rc)])
        sxx == SumOver(points, [rc \in points |-> X(rc) * X(rc)])
        sxy == SumOver(points, [rc \in points |-> X(rc) * Y(rc)])
        d == n * sxx - sx * sx
    IN  IF d = 0 THEN Ratio(sy, n)
        ELSE Ratio(sy * d + (n * sxy - sx * sy) * (n * x - sx), n * d)

\* np.maximum(forecast_y, 0)
ClampZero(p) == IF p.num < 0 THEN Ratio(0, 1) ELSE p

\* `len(aggregates) < 30`
Insufficient(rows) == Cardinality(rows) < ForecastMinRows

\* get_cost_forecast(days): an error, or one series of `days` points per team
\* that has at least 30 rows in the window
get_cost_forecast(a, days, now) ==
    LET aggregates == AggBetween(a, now - ForecastWindowDays, now)
        teams == {TeamKey(rc[1].team) : rc \in aggregates}
        data(team) == {rc \in aggregates : TeamKey(rc[1].team) = team}
        kept == {team \in teams : ~Insufficient(data(team))}
        series(team) ==
            LET dates == {rc[1].ts_date : rc \in data(team)}
                first_date == CHOOSE d \in dates : \A e \in dates : d <= e
                last_date == CHOOSE d \in dates : \A e \in dates : d >= e
            IN  [i \in 1..days |->
                    [date |-> last_date + i,
                     projected_cost |->
                         ClampZero(Predict(data(team), first_date,
                                           last_date + i - first_date))]]
    IN  IF Insufficient(aggregates)
        THEN [error |-> "InsufficientData", forecasts |-> <<>>]
        ELSE [error |-> "", forecasts |-> [team \in kept |-> series(team)]]

\* GET /forecast?days=
GetCostForecast(days) ==
    /\ call' = [op |-> "forecast", days |-> days,
                result |-> get_cost_forecast(agg, days, today)]
    /\ repeat' = FALSE
    /\ UNCHANGED <<raw, agg, anoms, ecod, budgets, today>>
    /\ UNCHANGED otherVars

\* The stores the forecaster is run against: per team, n rows over n consecutive
\* days or all on one day (one row per service), costs flat, rising or falling.
MaxExtraRows == 1
MaxForecastDays == 2

ForecastToday == 300
ForecastRowCounts == {0, ForecastMinRows - 1, ForecastMinRows, ForecastMinRows + MaxExtraRows}

TeamRows(team, n, spread, trend, last) ==
    {[ts_date |-> IF spread THEN last - n + i ELSE last,
      cloud |-> "aws", team |-> team,
      service |-> IF spread THEN "api" ELSE ToString(i),
      region |-> "us", env |-> "prod",
      total_cost |-> IF ~spread \/ trend = "flat" THEN 2
                     ELSE IF trend = "up" THEN i ELSE n + 1 - i] : i \in 1..n}

ForecastStores ==
    {TeamRows(NULL, n1, s1, "flat", ForecastToday - old)
        \cup TeamRows("eng", n2, s2, t2, ForecastToday) :
        n1 \in ForecastRowCounts, n2 \in ForecastRowCounts,
        s1 \in BOOLEAN, s2 \in BOOLEAN, t2 \in {"flat", "up", "down"},
        old \in {0, ForecastWindowDays}}

InitForecast ==
    /\ raw = EmptyBag
    /\ agg \in {SetToBag(S) : S \in ForecastStores}
    /\ anoms = EmptyBag
    /\ ecod = NoOracle
    /\ budgets = {}
    /\ today = ForecastToday
    /\ call = NoCall
    /\ repeat = FALSE
    /\ OthersIdle

NextForecast == \E days \in 1..MaxForecastDays : GetCostForecast(days)

SpecForecast == InitForecast /\ [][NextForecast]_vars

\* ---------------------------------------------------------------- cost anomaly detector
\* `min_history_days: int = 14`, `history_window_days: int = 60`
DefaultMinHistoryDays == 14
DefaultHistoryWindowDays == 60
\* `len(X) - 3`: the days held back for scoring
TestDays == 3
\* `rolling(window=7, min_periods=1)`
RollingWindow == 7

\* The (cloud, team, service, env) combination of an aggregate row.
Combo(row) == <<row.cloud, row.team, row.service, row.env>>

\* Lines 52-75: the combination's rows in the window.  A falsy team, service
\* or env is queried with IS NULL.
ComboRows(a, combo, start_date, latest_date) ==
    {rc \in RowCopies(a) :
        /\ rc[1].ts_date >= start_date
        /\ rc[1].ts_date <= latest_date
        /\ rc[1].cloud = combo[1]
        /\ rc[1].team = (IF Falsy(combo[2]) THEN NULL ELSE combo[2])
        /\ rc[1].service = (IF Falsy(combo[3]) THEN NULL ELSE combo[3])
        /\ rc[1].env = (IF Falsy(combo[4]) THEN NULL ELSE combo[4])}

\* `order_by(CostAggregate.ts_date)`: rows of one day come in an order the
\* query does not fix; rank (a ranking of the regions) is the order it took.
Before(x, y, rank) ==
    \/ x[1].ts_date < y[1].ts_date
    \/ /\ x[1].ts_date = y[1].ts_date
       /\ \/ rank[x[1].region] < rank[y[1].region]
          \/ rank[x[1].region] = rank[y[1].region] /\ x[2] <= y[2]

RECURSIVE SortRows(_, _)
SortRows(S, rank) ==
    IF S = {} THEN <<>>
    ELSE LET first == CHOOSE x \in S : \A y \in S : Before(x, y, rank)
         IN  <<first>> \o SortRows(S \ {first}, rank)

RECURSIVE SumSeq(_, _, _)
\* df['total_cost'][lo..hi] summed
SumSeq(df, lo, hi) ==
    IF lo > hi THEN 0 ELSE df[hi][1].total_cost + SumSeq(df, lo, hi - 1)

\* A trailing mean that leaves the day itself out.
RollingMeanPrior(df, idx) ==
    IF idx = 1 THEN Ratio(df[1][1].total_cost, 1)
    ELSE LET lo == IF idx - RollingWindow < 1 THEN 1 ELSE idx - RollingWindow
         IN  Ratio(SumSeq(df, lo, idx - 1), idx - lo)

\* df['rolling_mean_7'] at idx: the mean of the last 7 rows up to idx
RollingMean(df, idx) ==
    LET lo == IF idx - RollingWindow + 1 < 1 THEN 1 ELSE idx - RollingWindow + 1
    IN  Ratio(SumSeq(df, lo, idx), idx - lo + 1)

\* `X[:, 0].std() == 0`
ZeroVariance(df) == \A i \in 1..Len(df) : df[i][1].total_cost = df[1][1].total_cost

\* `max(min_history_days, len(X) - 3)`
TrainSize(n, min_history_days) ==
    IF min_history_days > n - TestDays THEN min_history_days ELSE n - TestDays

\* Lines 141-145
Direction(actual_cost, expected_cost) ==
    IF actual_cost * expected_cost.den > expected_cost.num THEN "spike" ELSE "drop"

Abs(x) == IF x < 0 THEN -x ELSE x

\* A severity whose bounds take the threshold itself: >= 50%, >= 25%.
CostSeverityInclusive(actual_cost, expected_cost) ==
    IF expected_cost.num > 0
    THEN LET dev == Abs(actual_cost * expected_cost.den - expected_cost.num)
         IN  IF 2 * dev >= expected_cost.num THEN "high"
             ELSE IF 4 * dev >= expected_cost.num THEN "medium"
             ELSE "low"
    ELSE "medium"

\* Lines 147-157: |actual - expected| / expected > 0.5, > 0.25, else; medium
\* when expected is not positive
CostSeverity(actual_cost, expected_cost) ==
    IF expected_cost.num > 0
    THEN LET dev == Abs(actual_cost * expected_cost.den - expected_cost.num)
         IN  IF 2 * dev > expected_cost.num THEN "high"
             ELSE IF 4 * dev > expected_cost.num THEN "medium"
             ELSE "low"
    ELSE "medium"

\* The key an anomaly is looked up under: region is not part of it.
AnomalyKey(r) == <<r.ts_date, r.cloud, r.team, r.service, r.env>>

\* Lines 160-168 under SessionLocal(autoflush=False): the query reads the
\* table, so a row added earlier in the run and not yet committed is not found.
ExistingAnomaly(db, key) == {r \in BagToSet(db) : AnomalyKey(r) = key}

\* `CostAnomaly(...)`, region=None
CostAnomaly(row, combo, actual_cost, expected_cost) ==
    [ts_date |-> row.ts_date, cloud |-> combo[1], team |-> combo[2],
     service |-> combo[3], region |-> NULL, env |-> combo[4],
     actual_cost |-> actual_cost, expected_cost |-> expected_cost,
     direction |-> Direction(actual_cost, expected_cost),
     severity |-> CostSeverity(actual_cost, expected_cost)]

\* What a run has done so far: the table it reads, the rows it changed in place
\* (old row -> new content), the rows it added, and its count.
NoWork(db) == [db |-> db, updates |-> <<>>, inserts |-> EmptyBag, count |-> 0]

SetUpdate(updates, old, new) ==
    [r \in DOMAIN updates \cup {old} |-> IF r = old THEN new ELSE updates[r]]

RECURSIVE ScoreTest(_, _, _, _, _)
\* Lines 134-194: the test rows idx..Len(df), each flagged one upserted
ScoreTest(st, df, idx, combo, flagged) ==
    IF idx > Len(df) THEN st
    ELSE IF df[idx][1] \notin flagged THEN ScoreTest(st, df, idx + 1, combo, flagged)
    ELSE LET new == CostAnomaly(df[idx][1], combo, df[idx][1].total_cost,
                                RollingMean(df, idx))
             found == ExistingAnomaly(st.db, AnomalyKey(new))
             next ==
                 IF found # {}
                 THEN LET existing == CHOOSE r \in found : TRUE
                      IN  [st EXCEPT !.updates = SetUpdate(st.updates, existing,
                                         [new EXCEPT !.region = existing.region]),
                                     !.count = st.count + 1]
                 ELSE [st EXCEPT !.inserts = BagAdd(st.inserts, new),
                                 !.count = st.count + 1]
         IN  ScoreTest(next, df, idx + 1, combo, flagged)

\* Lines 50-199: one combination
ScoreCombo(st, a, combo, start_date, latest_date, min_history_days, flagged, failing, rank) ==
    LET df == SortRows(ComboRows(a, combo, start_date, latest_date), rank)
        train_size == TrainSize(Len(df), min_history_days)
    IN  IF Len(df) < min_history_days THEN st
        ELSE IF ZeroVariance(df) THEN st
        ELSE IF train_size >= Len(df) THEN st
        ELSE IF combo \in failing THEN st
        ELSE ScoreTest(st, df, train_size + 1, combo, flagged)

RECURSIVE ScoreCombosAbort(_, _, _, _, _, _, _, _, _)
\* A loop that stops at the first combination whose detector raises.
ScoreCombosAbort(st, todo, a, start_date, latest_date, min_history_days, flagged, failing, rank) ==
    IF todo = {} THEN st
    ELSE LET combo == CHOOSE c \in todo : TRUE
         IN  IF combo \in failing THEN st
             ELSE ScoreCombosAbort(
                      ScoreCombo(st, a, combo, start_date, latest_date, min_history_days,
                                 flagged, failing, rank),
                      todo \ {combo}, a, start_date, latest_date, min_history_days,
                      flagged, failing, rank)

RECURSIVE ScoreCombos(_, _, _, _, _, _, _, _, _)
ScoreCombos(st, todo, a, start_date, latest_date, min_history_days, flagged, failing, rank) ==
    IF todo = {} THEN st
    ELSE LET combo == CHOOSE c \in todo : TRUE
         IN  ScoreCombos(
                 ScoreCombo(st, a, combo, start_date, latest_date, min_history_days,
                            flagged, failing, rank),
                 todo \ {combo}, a, start_date, latest_date, min_history_days,
                 flagged, failing, rank)

RECURSIVE ApplyUpdates(_, _)
\* db.commit() for the rows changed in place
ApplyUpdates(db, updates) ==
    IF DOMAIN updates = {} THEN db
    ELSE LET old == CHOOSE r \in DOMAIN updates : TRUE
         IN  ApplyUpdates(BagAdd(BagRemove(db, old), updates[old]),
                          [r \in DOMAIN updates \ {old} |-> updates[r]])

\* A run that rebuilds the anomaly table from what it flags.
recompute_cost_anomalies_rebuild(a, db, min_history_days, history_window_days, flagged, failing, rank) ==
    IF BagToSet(a) = {} THEN [anoms |-> db, ret |-> 0]
    ELSE LET latest_date == CHOOSE d \in {r.ts_date : r \in BagToSet(a)} :
                               \A r \in BagToSet(a) : d >= r.ts_date
             start_date == latest_date - history_window_days
             combinations == {Combo(r) : r \in BagToSet(a)}
             st == ScoreCombos(NoWork(EmptyBag), combinations, a, start_date, latest_date,
                               min_history_days, flagged, failing, rank)
         IN  [anoms |-> st.inserts, ret |-> st.count]

\* recompute_cost_anomalies(db, min_history_days, history_window_days).  The
\* ECOD detector is an oracle: flagged are the aggregate rows it scores above
\* its threshold, failing the combinations where it raises.
recompute_cost_anomalies(a, db, min_history_days, history_window_days, flagged, failing, rank) ==
    IF BagToSet(a) = {} THEN [anoms |-> db, ret |-> 0]
    ELSE LET latest_date == CHOOSE d \in {r.ts_date : r \in BagToSet(a)} :
                               \A r \in BagToSet(a) : d >= r.ts_date
             start_date == latest_date - history_window_days
             combinations == {Combo(r) : r \in BagToSet(a)}
             st == ScoreCombos(NoWork(db), combinations, a, start_date, latest_date,
                               min_history_days, flagged, failing, rank)
         IN  [anoms |-> ApplyUpdates(db, st.updates) (+) st.inserts, ret |-> st.count]

\* the rankings of a set of regions
Rankings(regions) ==
    {f \in [regions -> 1..Cardinality(regions)] :
        \A x \in regions, y \in regions : f[x] = f[y] => x = y}

\* POST /recompute-anomalies
RecomputeCostAnomalies(min_history_days, history_window_days) ==
    LET res == recompute_cost_anomalies(agg, anoms, min_history_days, history_window_days,
                                        ecod.flagged, ecod.failing, ecod.rank)
    IN  /\ anoms' = res.anoms
        /\ call' = [op |-> "anomalies", ret |-> res.ret]
        /\ repeat' = (call.op = "anomalies")
        /\ UNCHANGED <<raw, agg, ecod, budgets, today>>
        /\ UNCHANGED otherVars

\* The rows of a store the detector can be asked about: train_size is at least
\* 1, so the first row of a combination's frame is never a test row.
TestRows(a, rank) ==
    {r \in BagToSet(a) :
        \E p \in BagToSet(a) :
            /\ Combo(p) = Combo(r)
            /\ \/ p.ts_date < r.ts_date
               \/ p.ts_date = r.ts_date /\ rank[p.region] < rank[r.region]}

\* The detector is deterministic: its answers for one aggregate store are the
\* same in every run over that store.  It either raises for a combination
\* (lines 196-199) or labels the combination's test rows.
Oracles(a) ==
    LET combos == {Combo(r) : r \in BagToSet(a)}
        ranks == Rankings({r.region : r \in BagToSet(a)})
    IN  UNION {[flagged : SUBSET TestRows(a, rk), failing : SUBSET combos \ {combos},
                rank : {rk}] : rk \in ranks}
            \cup [flagged : {{}}, failing : {combos}, rank : {CHOOSE rk \in ranks : TRUE}]

\* The aggregate stores the detector is run against.
MaxAnomRows == 3
MaxAnomDate == 2

\* totals that reach both severity bounds; 0 is what a row of amounts below
\* the sixth decimal adds up to
AnomTotals == {0, 1, 3}

AnomAggRows ==
    [ts_date : 1..MaxAnomDate, cloud : Clouds, team : {"eng"}, service : {"api"},
     region : {"us", "eu"}, env : {"prod"}, total_cost : AnomTotals]

MinHistoryChoices == {1, 2, DefaultMinHistoryDays}

InitAnom ==
    /\ raw = EmptyBag
    /\ agg \in {SetToBag(S) : S \in UniqueStores(AnomAggRows, MaxAnomRows)}
    /\ anoms = EmptyBag
    /\ ecod \in Oracles(agg)
    /\ budgets = {}
    /\ today = MaxAnomDate
    /\ call = NoCall
    /\ repeat = FALSE
    /\ OthersIdle

NextAnom ==
    \E mh \in MinHistoryChoices :
        RecomputeCostAnomalies(mh, DefaultHistoryWindowDays)

SpecAnom == InitAnom /\ [][NextAnom]_vars

\* ---------------------------------------------------------------- anomaly claims
\* C9: after recompute_cost_anomalies, the anomaly store holds at most one row
\* per (date, provider, team, service, env) key.
C9_OneAnomalyPerKey ==
    call.op = "anomalies" =>
        \A r1 \in BagToSet(anoms) :
            /\ anoms[r1] = 1
            /\ \A r2 \in BagToSet(anoms) : AnomalyKey(r1) = AnomalyKey(r2) => r1 = r2

\* |actual - expected| / expected against a bound num / den, expected > 0
DeviationOver(r, num, den) ==
    den * Abs(r.actual_cost * r.expected_cost.den - r.expected_cost.num)
        > num * r.expected_cost.num

\* C10: every stored anomaly has severity low when its deviation is at most
\* 25%, medium when it is above 25% and at most 50%, high when it is above
\* 50%, and medium when expected is 0; it has no other severity.
C10_SeverityPartition ==
    \A r \in BagToSet(anoms) :
        /\ r.severity \in {"low", "medium", "high"}
        /\ r.expected_cost.num = 0 => r.severity = "medium"
        /\ r.expected_cost.num > 0 =>
               /\ r.severity = "low" <=> ~DeviationOver(r, 1, 4)
               /\ r.severity = "medium" <=>
                      (DeviationOver(r, 1, 4) /\ ~DeviationOver(r, 1, 2))
               /\ r.severity = "high" <=> DeviationOver(r, 1, 2)

\* the store holds an anomaly exactly 50% off its expected cost, rated medium
C10_Witness ==
    /\ call.op = "anomalies"
    /\ \E r \in BagToSet(anoms) :
           /\ r.expected_cost.num > 0
           /\ 2 * Abs(r.actual_cost * r.expected_cost.den - r.expected_cost.num)
                  = r.expected_cost.num
           /\ r.severity = "medium"

\* ---------------------------------------------------------------- budget claims
StatusRank(status) ==
    IF status = "UNDER" THEN 0 ELSE IF status = "AT_RISK" THEN 1 ELSE 2

\* p <= q for two ratios
RatioLeq(p, q) == p.num * q.den <= q.num * p.den

\* month-to-date sums and day counts to compare a projection with
ProjectedSamples ==
    {ProjectedCost(mtd, dp, dim) :
        mtd \in {0, 300, 330, 600, 630, 660}, dp \in {10, 30, 31}, dim \in {30, 31}}

\* C6: budget_statuses reports UNDER exactly when projected < 0.9 * budget,
\* AT_RISK exactly when 0.9 * budget <= projected <= 1.1 * budget, OVER
\* otherwise; and for the same budget a higher projected cost never gets an
\* earlier status in the order UNDER, AT_RISK, OVER.
C6_StatusThresholds ==
    call.op = "budget_statuses" =>
        \A b \in DOMAIN call.results :
            LET r == call.results[b]
                p == r.projected_cost
                B == r.monthly_budget
            IN  /\ r.status = "UNDER" <=> 10 * p.num < 9 * B * p.den
                /\ r.status = "AT_RISK" <=>
                       (9 * B * p.den <= 10 * p.num /\ 10 * p.num <= 11 * B * p.den)
                /\ r.status = "OVER" <=> 10 * p.num > 11 * B * p.den
                /\ \A q \in ProjectedSamples :
                       /\ RatioLeq(p, q) => StatusRank(r.status) <= StatusRank(BudgetStatus(q, B))
                       /\ RatioLeq(q, p) => StatusRank(BudgetStatus(q, B)) <= StatusRank(r.status)

\* a projection exactly on the upper threshold (990 against a budget of 900)
C6_Witness ==
    /\ call.op = "budget_statuses"
    /\ \E b \in DOMAIN call.results :
           LET r == call.results[b]
           IN  /\ 10 * r.projected_cost.num = 11 * r.monthly_budget * r.projected_cost.den
               /\ r.status = "AT_RISK"

\* The spec's example: monthly_amount 1000, month-to-date 300 at day 10 of a
\* 30-day month.
IsExample(r) ==
    /\ r.monthly_budget = 1000
    /\ r.mtd_cost = 300
    /\ r.days_passed = 10
    /\ r.days_in_month = 30

\* C7 as stated: the example is reported with projected_cost 900 and status UNDER.
C7_ExampleUnder ==
    call.op = "budget_statuses" =>
        \A b \in DOMAIN call.results :
            IsExample(call.results[b]) =>
                /\ call.results[b].projected_cost.num = 900 * call.results[b].projected_cost.den
                /\ call.results[b].status = "UNDER"

\* C7 (amended): the example is reported with projected_cost 900 and status
\* AT_RISK, 900 being 0.9 * 1000 and the UNDER bound being strict.
C7_ExampleAtRisk ==
    call.op = "budget_statuses" =>
        \A b \in DOMAIN call.results :
            IsExample(call.results[b]) =>
                /\ call.results[b].projected_cost.num = 900 * call.results[b].projected_cost.den
                /\ call.results[b].status = "AT_RISK"

\* budget_statuses has reported the example
C7_Witness ==
    /\ call.op = "budget_statuses"
    /\ \E b \in DOMAIN call.results : IsExample(call.results[b])

\* ---------------------------------------------------------------- forecaster claims
\* days of history in the forecaster's window
HistoryDays ==
    Cardinality({rc[1].ts_date :
        rc \in AggBetween(agg, today - ForecastWindowDays, today)})

\* C8: forecast(days) fails with the insufficient-data error whenever the window
\* holds fewer than 30 days of history, and with 30 or more days it succeeds
\* and every series it returns has exactly `days` points.
C8_ForecastNeedsThirtyDays ==
    call.op = "forecast" =>
        IF HistoryDays < ForecastMinRows
        THEN call.result.error = "InsufficientData"
        ELSE /\ call.result.error = ""
             /\ \A team \in DOMAIN call.result.forecasts :
                    Len(call.result.forecasts[team]) = call.days

\* ---------------------------------------------------------------- aggregator claims
RawTotalIn(r, start, end) ==
    LET S == InRange(r, start, end)
    IN  SumOver(S, [c \in S |-> r[c] * c.cost_amount])

AggRowsIn(a, start, end) ==
    {row \in BagToSet(a) : row.ts_date >= start /\ row.ts_date <= end}

AggTotalIn(a, start, end) ==
    LET S == AggRowsIn(a, start, end)
    IN  SumOver(S, [row \in S |-> a[row] * row.total_cost])

\* C1: a recompute that repeats the call before it (same raw records, same
\* range) leaves the aggregate store exactly as the first run left it: same
\* rows, same totals, none added.
C1_Idempotent == [][repeat' => agg' = agg]_vars

\* a second run that touched rows has happened
C1_Witness == repeat /\ call.op = "recompute" /\ call.ret >= 2

\* C2: after recompute_aggregates over [start, end], the totals of the
\* aggregate rows dated in [start, end] add up to the amounts of the raw
\* records dated in [start, end].  A call that returned early was asked about
\* a range with no raw record in it: there the aggregate rows add up to 0.
C2_SumPreserved ==
    call.op = "recompute" =>
        IF call.range # NoRange
        THEN AggTotalIn(agg, call.range[1], call.range[2])
                 = RawTotalIn(raw, call.range[1], call.range[2])
        ELSE \A start \in Dates, end \in Dates :
                 InRange(raw, start, end) = {} => AggTotalIn(agg, start, end) = 0

\* a recompute has stored a group that sums two different line items
C2_Witness ==
    /\ call.op = "recompute" /\ call.range # NoRange
    /\ \E row \in BagToSet(agg) : row.total_cost = 3

\* C3: the aggregate store never holds two rows for one dimension tuple
\* (date, provider, team, service, region, env), None counting as a value.
C3_UniqueKey ==
    \A r1 \in BagToSet(agg) :
        /\ agg[r1] = 1
        /\ \A r2 \in BagToSet(agg) : KeyOf(r1) = KeyOf(r2) => r1 = r2

\* a row with an absent team has been updated in place beside another row
C3_Witness ==
    /\ repeat /\ BagSize(agg) >= 2
    /\ \E row \in BagToSet(agg) : row.team = NULL


\* A raw record was summed into an aggregate row when its group is stored under
\* the row's key.
SummedInto(c, row) == AggKey(DataRow(c)) = KeyOf(row)

\* C4: after recompute_aggregates, an aggregate row whose team, service,
\* region or env is absent holds raw records with that dimension absent only:
\* no record carrying a real value of the dimension is summed into it.
C4_AbsentGroupDistinct ==
    (call.op = "recompute" /\ call.range # NoRange) =>
        \A row \in AggRowsIn(agg, call.range[1], call.range[2]) :
            \A c \in InRange(raw, call.range[1], call.range[2]) :
                SummedInto(c, row) =>
                    /\ row.team = NULL => c.team = NULL
                    /\ row.service = NULL => c.service = NULL
                    /\ row.region = NULL => c.region = NULL
                    /\ row.env = NULL => c.env = NULL

\* The dimension tuple of a raw record, an absent dimension being one value.
RawTuple(c) ==
    [ts_date |-> c.ts_date, cloud |-> c.cloud, team |-> c.team,
     service |-> c.service, region |-> c.region, env |-> c.env]

\* C5: recompute_aggregates returns the number of distinct dimension tuples
\* among the raw records in range (0 when there is none).
C5_ReturnsGroupCount ==
    call.op = "recompute" =>
        call.ret = IF call.range = NoRange THEN 0
                   ELSE Cardinality({RawTuple(c) :
                            c \in InRange(raw, call.range[1], call.range[2])})

\* What the count is in the code: one per DataFrame group, the groups being
\* built after every absent dimension became '*'.
C5_ReturnsCodeGroups ==
    call.op = "recompute" =>
        call.ret = IF call.range = NoRange THEN 0
                   ELSE Cardinality(Groups(raw, call.range[1], call.range[2]))

\* ---------------------------------------------------------------- daily series
\* recompute_cost_anomalies called with its arguments, over stores that hold a
\* run of consecutive days per team.
RecomputeCostAnomaliesWith(min_history_days, history_window_days) ==
    LET res == recompute_cost_anomalies(agg, anoms, min_history_days, history_window_days,
                                        ecod.flagged, ecod.failing, ecod.rank)
    IN  /\ anoms' = res.anoms
        /\ call' = [op |-> "anomalies", min_history_days |-> min_history_days,
                    ret |-> res.ret]
        /\ repeat' = (call.op = "anomalies")
        /\ UNCHANGED <<raw, agg, ecod, budgets, today>>
        /\ UNCHANGED otherVars

MaxSeriesLen == 4

SeriesTotals == {100, 400}

SeriesRow(team, day, total) ==
    [ts_date |-> day, cloud |-> "aws", team |-> team, service |-> "api",
     region |-> "us", env |-> "prod", total_cost |-> total]

\* one row per day 1..n for a team, each day's total drawn from totals
SeriesOf(team, n, totals) ==
    {{SeriesRow(team, d, f[d]) : d \in 1..n} : f \in [1..n -> totals]}

\* team "eng" has up to MaxSeriesLen days; team "ops" has none or two days
SeriesStores ==
    {e \cup o : e \in UNION {SeriesOf("eng", n, SeriesTotals) : n \in 0..MaxSeriesLen},
                o \in {{}, {SeriesRow("ops", 1, 100), SeriesRow("ops", 2, 400)}}}

SeriesMinHistory == {1, TestDays, TestDays + 1, DefaultMinHistoryDays}

InitSeries ==
    /\ raw = EmptyBag
    /\ agg \in {SetToBag(S) : S \in SeriesStores}
    /\ anoms = EmptyBag
    /\ ecod \in Oracles(agg)
    /\ budgets = {}
    /\ today = MaxSeriesLen
    /\ call = NoCall
    /\ repeat = FALSE
    /\ OthersIdle

NextSeries ==
    \E mh \in SeriesMinHistory :
        RecomputeCostAnomaliesWith(mh, DefaultHistoryWindowDays)

SpecSeries == InitSeries /\ [][NextSeries]_vars

\* ---------------------------------------------------------------- series claims
\* team "eng": three days at 100, a fourth day at 400, and nothing else stored
ExampleSeries ==
    {SeriesRow("eng", 1, 100), SeriesRow("eng", 2, 100), SeriesRow("eng", 3, 100),
     SeriesRow("eng", 4, 400)}

\* the store is the example and the detector scores its fourth day above the
\* threshold whenever it is asked about it
ExampleFlagged ==
    /\ BagToSet(agg) = ExampleSeries
    /\ SeriesRow("eng", 4, 400) \in ecod.flagged
    /\ ecod.failing = {}

\* the anomaly the example describes: day 4, expected 175, spike, high
ExampleAnomaly(r) ==
    /\ r.ts_date = 4
    /\ r.team = "eng"
    /\ r.actual_cost = 400
    /\ r.expected_cost.num = 175 * r.expected_cost.den
    /\ r.direction = "spike"
    /\ r.severity = "high"

\* C11 as stated: with three days at 100 and a fourth at 400 for team "eng",
\* recompute_cost_anomalies records the fourth day as a spike of severity high
\* with expected cost 175.
C11_ExampleFlagged ==
    (call.op = "anomalies" /\ ExampleFlagged) =>
        \E r \in BagToSet(anoms) : ExampleAnomaly(r)

\* C11 amended: the fourth day is recorded (spike, high, expected 175) when the
\* call's min_history_days is at most 3; with a larger minimum, the default 14
\* included, the four-day series is not scored and the call returns 0.
C11_ExampleNeedsShortHistory ==
    (call.op = "anomalies" /\ ExampleFlagged) =>
        IF call.min_history_days <= TestDays
        THEN /\ \E r \in BagToSet(anoms) : ExampleAnomaly(r)
             /\ \A r \in BagToSet(anoms) : r.ts_date = 4 => ExampleAnomaly(r)
        ELSE call.ret = 0

\* the example store was scored with a short minimum history and its fourth
\* day is in the anomaly store
C11_Witness ==
    /\ call.op = "anomalies"
    /\ ExampleFlagged
    /\ call.min_history_days <= TestDays
    /\ call.ret >= 1
    /\ \E r \in BagToSet(anoms) : ExampleAnomaly(r)

\* the rows of one combination in the store
RowsOf(combo) == {r \in BagToSet(agg) : Combo(r) = combo}

\* The rows a run with min_history_days upserts for a combination whose
\* detector answers: the flagged days after the training prefix of a series
\* that is long enough and not constant (days are numbered from 1).
Upserted(combo, min_history_days) ==
    LET rows == RowsOf(combo)
        n == Cardinality(rows)
    IN  IF \/ n < min_history_days
           \/ \A r1 \in rows, r2 \in rows : r1.total_cost = r2.total_cost
        THEN {}
        ELSE {r \in rows \cap ecod.flagged :
                 /\ r.ts_date > min_history_days
                 /\ r.ts_date > n - TestDays}

\* C12: when the detector raises for a combination, the call still returns,
\* every other combination is scored (each of its flagged test days has an
\* anomaly row), the failing combination gets no row, and the return value is
\* the number of upserts performed.
C12_FailureIsolated ==
    (call.op = "anomalies" /\ ecod.failing # {}) =>
        LET combos == {Combo(r) : r \in BagToSet(agg)}
            done == UNION {Upserted(c, call.min_history_days) : c \in combos \ ecod.failing}
        IN  /\ call.ret = Cardinality(done)
            /\ \A r \in done :
                   \E x \in BagToSet(anoms) :
                       /\ AnomalyKey(x) = <<r.ts_date, r.cloud, r.team, r.service, r.env>>
                       /\ x.actual_cost = r.total_cost
            /\ \A x \in BagToSet(anoms) : <<x.cloud, x.team, x.service, x.env>> \notin ecod.failing

\* the detector raised for one team and the other team's flagged day was
\* still recorded and counted
C12_Witness ==
    /\ call.op = "anomalies"
    /\ ecod.failing # {}
    /\ call.ret >= 1
    /\ \E r \in BagToSet(agg) : Combo(r) \in ecod.failing
    /\ \E x \in BagToSet(anoms) : x.team = "ops"
    /\ \E c \in ecod.failing : c[2] = "eng" /\ Cardinality(RowsOf(c)) >= 2

\* ---------------------------------------------------------------- metric anomalies
\* A timestamp is a whole hour; a normalized anomaly score is counted in
\* hundredths.  A snapshot carries the metrics of it that lie more than two
\* standard deviations off the window's mean (deviant); the detectors' labels
\* and scores are answers drawn per run.
MinSamples == 10

DefaultHours == 24

MetricNames == {"request_rate", "error_rate", "latency_p99", "cpu_usage", "memory_usage"}

\* get_metric_features: the service's snapshots at or after the cutoff
InWindow(ms, service_name, hours, now) ==
    {m \in ms : m.service_name = service_name /\ m.timestamp >= now - hours}

RECURSIVE ByTimestamp(_)
\* `.order_by(ServiceMetric.timestamp)`; (service, timestamp) is unique
ByTimestamp(S) ==
    IF S = {} THEN <<>>
    ELSE LET first == CHOOSE m \in S : \A x \in S : m.timestamp <= x.timestamp
         IN  <<first>> \o ByTimestamp(S \ {first})

\* Severity buckets with bounds that leave the threshold to the bucket below.
assign_severity_strict(anomaly_score) ==
    IF anomaly_score > 80 THEN "critical"
    ELSE IF anomaly_score > 60 THEN "high"
    ELSE IF anomaly_score > 40 THEN "medium"
    ELSE "low"

\* assign_severity: >= 0.8 critical, >= 0.6 high, >= 0.4 medium, else low
assign_severity(anomaly_score) ==
    IF anomaly_score >= 80 THEN "critical"
    ELSE IF anomaly_score >= 60 THEN "high"
    ELSE IF anomaly_score >= 40 THEN "medium"
    ELSE "low"

\* identify_affected_metrics: the deviant metrics, or all of them when none is
identify_affected_metrics(metric) ==
    IF metric.deviant = {} THEN MetricNames ELSE metric.deviant

\* _create_anomaly_dict
create_anomaly_dict(metric, anomaly_score, detector_name) ==
    [service_name |-> metric.service_name,
     timestamp |-> metric.timestamp,
     anomaly_type |-> "metric_deviation",
     severity |-> assign_severity(anomaly_score),
     anomaly_score |-> anomaly_score,
     affected_metrics |-> identify_affected_metrics(metric),
     description |-> detector_name]

\* A pass that does not look at what was reported before it.
LabelledAll(rows, answer, detector_name, seen) ==
    LET kept == ByTimestamp({m \in rows : m.timestamp \in DOMAIN answer.flags})
    IN  [i \in 1..Len(kept) |->
            create_anomaly_dict(kept[i], answer.flags[kept[i].timestamp], detector_name)]

\* The anomalies one detector adds: for each sample of the window (rows) it
\* labels, in timestamp order, a dict, unless seen already holds that timestamp.
Labelled(rows, answer, detector_name, seen) ==
    LET kept == ByTimestamp({m \in rows : /\ m.timestamp \in DOMAIN answer.flags
                                         /\ m.timestamp \notin seen})
    IN  [i \in 1..Len(kept) |->
            create_anomaly_dict(kept[i], answer.flags[kept[i].timestamp], detector_name)]

\* A sample-count test that lets nine samples through.
TooFewBelowNine(rows) == Cardinality(rows) < MinSamples - 1

\* `len(features) < 10`
TooFew(rows) == Cardinality(rows) < MinSamples

\* detect_anomalies(db, service_name, hours).  iso and ec are what the two
\* detectors answer for the window: raised (or the library is missing), or
\* the labelled samples with their normalized scores.
detect_anomalies(ms, service_name, hours, now, iso, ec) ==
    LET rows == InWindow(ms, service_name, hours, now)
    IN  IF TooFew(rows) THEN <<>>
        ELSE LET first == IF iso.raised THEN <<>>
                          ELSE Labelled(rows, iso, "IsolationForest", {})
                 seen == {first[i].timestamp : i \in 1..Len(first)}
                 second == IF ec.raised THEN <<>>
                           ELSE Labelled(rows, ec, "ECOD", seen)
             IN  first \o second

\* the samples a detector run may label: the two latest of a window that is
\* large enough for the detectors to run
Candidates(ms, service_name, hours, now) ==
    IF TooFew(InWindow(ms, service_name, hours, now)) THEN {}
    ELSE {m.timestamp : m \in InWindow(ms, service_name, hours, now)} \cap {now - 1, now}

\* what a detector can answer: it raises, or it labels some candidates, each
\* with a score
Answers(cands, scores) ==
    {[raised |-> TRUE, flags |-> <<>>]}
        \cup {[raised |-> FALSE, flags |-> f] :
                  f \in UNION {[T -> scores] : T \in SUBSET cands}}

\* 1 / (1 + exp(score_samples)) lies between 0.5 and 0.73
IsoScores == {60}

\* min-max normalized decision scores
EcodScores == {40, 80}

\* One detect_anomalies call, run to its end; call keeps what the detectors
\* answered next to what the call returned.
DetectAnomalies(service_name, hours, iso, ec) ==
    LET result == detect_anomalies(metrics, service_name, hours, today, iso, ec)
        fitted == ~TooFew(InWindow(metrics, service_name, hours, today))
    IN  /\ call' = [op |-> "detect", service_name |-> service_name, hours |-> hours,
                    iso |-> iso, ec |-> ec, result |-> result]
        /\ detector' = IF fitted THEN [iso |-> service_name, ecod |-> service_name]
                       ELSE detector
        /\ repeat' = FALSE
        /\ UNCHANGED costVars
        /\ UNCHANGED <<metrics, manoms, procs, spawned>>

MaxExtraSnapshots == 1

MetricServices == {"api", "db"}

MetricCounts == {0, MinSamples - 1, MinSamples, MinSamples + MaxExtraSnapshots}

MetricHours == {MinSamples - 2, DefaultHours}

\* n hourly snapshots of a service ending now; dev is what deviates in the latest
Snapshots(service_name, n, now, dev) ==
    {[service_name |-> service_name, timestamp |-> now - i,
      deviant |-> IF i = 0 THEN dev ELSE {}] : i \in 0..(n - 1)}

\* no cost data, no call yet
CostIdle ==
    /\ raw = EmptyBag
    /\ agg = EmptyBag
    /\ anoms = EmptyBag
    /\ ecod = NoOracle
    /\ budgets = {}
    /\ call = NoCall
    /\ repeat = FALSE

InitMetric ==
    /\ CostIdle
    /\ today = DefaultHours + MinSamples
    /\ \E n1 \in MetricCounts, n2 \in {0, MinSamples}, dev \in {{}, {"error_rate"}} :
           metrics = Snapshots("api", n1, today, dev) \cup Snapshots("db", n2, today, {})
    /\ manoms = EmptyBag
    /\ detector = NoFit
    /\ procs = <<>>
    /\ spawned = {}

NextMetric ==
    \E service_name \in MetricServices, hours \in MetricHours :
        \E iso \in Answers(Candidates(metrics, service_name, hours, today), IsoScores),
           ec \in Answers(Candidates(metrics, service_name, hours, today), EcodScores) :
            DetectAnomalies(service_name, hours, iso, ec)

SpecMetric == InitMetric /\ [][NextMetric]_vars

\* ---------------------------------------------------------------- metric anomaly claims
\* C13: detect_anomalies over a window that holds fewer than 10 snapshots of
\* the service returns the empty list and leaves the anomaly store as it was.
C13_TooFewEmpty ==
    (/\ call.op = "detect"
     /\ Cardinality({m \in metrics : /\ m.service_name = call.service_name
                                     /\ m.timestamp >= today - call.hours}) < 10) =>
        /\ call.result = <<>>
        /\ manoms = EmptyBag

\* a call over a service with nine snapshots in its window, both detectors
\* ready to answer, returned nothing
C13_Witness ==
    /\ call.op = "detect"
    /\ Cardinality({m \in metrics : /\ m.service_name = call.service_name
                                     /\ m.timestamp >= today - call.hours}) = 9
    /\ Cardinality({m \in metrics : m.service_name = call.service_name}) > 9
    /\ ~call.iso.raised /\ ~call.ec.raised
    /\ call.result = <<>>

\* C14: the list detect_anomalies returns holds no two anomalies with the same
\* timestamp, and a sample labelled by both detectors appears with the
\* IsolationForest record.
C14_OnePerTimestamp ==
    call.op = "detect" =>
        /\ \A i \in 1..Len(call.result), j \in 1..Len(call.result) :
               call.result[i].timestamp = call.result[j].timestamp => i = j
        /\ (~call.iso.raised /\ ~call.ec.raised) =>
               \A t \in DOMAIN call.iso.flags \cap DOMAIN call.ec.flags :
                   \E i \in 1..Len(call.result) :
                       /\ call.result[i].timestamp = t
                       /\ call.result[i].description = "IsolationForest"
                       /\ call.result[i].anomaly_score = call.iso.flags[t]

\* both detectors labelled the latest sample, and the list holds two anomalies
C14_Witness ==
    /\ call.op = "detect"
    /\ ~call.iso.raised /\ ~call.ec.raised
    /\ today \in DOMAIN call.iso.flags \cap DOMAIN call.ec.flags
    /\ Len(call.result) = 2
    /\ \E i \in 1..2 : call.result[i].description = "ECOD"

\* ---------------------------------------------------------------- severity of a score
\* assign_severity applied to one score after another; call keeps the score
\* and severity of the call before it.
MaxScore == 100

NoScore == [anomaly_score |-> -1, severity |-> "<None>"]

AssignSeverity(anomaly_score) ==
    /\ call' = [op |-> "assign_severity", anomaly_score |-> anomaly_score,
                severity |-> assign_severity(anomaly_score),
                before |-> IF call.op = "assign_severity"
                           THEN [anomaly_score |-> call.anomaly_score,
                                 severity |-> call.severity]
                           ELSE NoScore]
    /\ repeat' = FALSE
    /\ UNCHANGED costVars
    /\ UNCHANGED otherVars

InitSeverity ==
    /\ CostIdle
    /\ today = 1
    /\ OthersIdle

NextSeverity == \E anomaly_score \in 0..MaxScore : AssignSeverity(anomaly_score)

SpecSeverity == InitSeverity /\ [][NextSeverity]_vars

\* low < medium < high < critical
SeverityRank(severity) ==
    CASE severity = "low" -> 0
      [] severity = "medium" -> 1
      [] severity = "high" -> 2
      [] severity = "critical" -> 3

\* C15: the severity of a score is critical from 0.8, high from 0.6, medium
\* from 0.4 and low below that, and of two scores the higher never gets the
\* lower severity.
C15_SeverityMonotone ==
    call.op = "assign_severity" =>
        /\ call.severity = "critical" <=> call.anomaly_score >= 80
        /\ call.severity = "high" <=> (call.anomaly_score >= 60 /\ call.anomaly_score < 80)
        /\ call.severity = "medium" <=> (call.anomaly_score >= 40 /\ call.anomaly_score < 60)
        /\ call.severity = "low" <=> call.anomaly_score < 40
        /\ (call.before # NoScore /\ call.before.anomaly_score <= call.anomaly_score) =>
               SeverityRank(call.before.severity) <= SeverityRank(call.severity)

\* a score of exactly 0.8 rated critical right after a score just below it
\* rated high
C15_Witness ==
    /\ call.op = "assign_severity"
    /\ call.anomaly_score = 80
    /\ call.severity = "critical"
    /\ call.before.anomaly_score = 79
    /\ call.before.severity = "high"

\* ---------------------------------------------------------------- storing metric anomalies
\* json.dumps(anomaly['affected_metrics']): the stored column is text
JsonDumps(names) == <<"json", names>>

\* MetricsAnomaly(...) built from an anomaly dict
MetricsAnomaly(anomaly) ==
    [service_name |-> anomaly.service_name,
     timestamp |-> anomaly.timestamp,
     anomaly_type |-> anomaly.anomaly_type,
     severity |-> anomaly.severity,
     anomaly_score |-> anomaly.anomaly_score,
     affected_metrics |-> JsonDumps(anomaly.affected_metrics),
     description |-> anomaly.description]

\* the rows the look-up of store_anomaly matches
ExistingMetricsAnomaly(db, anomaly) ==
    {r \in BagToSet(db) :
        /\ r.service_name = anomaly.service_name
        /\ r.timestamp = anomaly.timestamp
        /\ r.anomaly_type = anomaly.anomaly_type}

\* A store that adds a row whatever the table holds.
store_anomaly_always(db, anomaly) ==
    [db |-> BagAdd(db, MetricsAnomaly(anomaly)), returned |-> MetricsAnomaly(anomaly)]

\* store_anomaly(db, anomaly): the existing row, or a new committed row
store_anomaly(db, anomaly) ==
    LET existing == ExistingMetricsAnomaly(db, anomaly)
    IN  IF existing # {}
        THEN [db |-> db, returned |-> CHOOSE r \in existing : TRUE]
        ELSE [db |-> BagAdd(db, MetricsAnomaly(anomaly)),
              returned |-> MetricsAnomaly(anomaly)]

StoreAnomaly(anomaly) ==
    LET res == store_anomaly(manoms, anomaly)
    IN  /\ manoms' = res.db
        /\ call' = [op |-> "store", anomaly |-> anomaly, returned |-> res.returned]
        /\ repeat' = (call.op = "store" /\ ExistingMetricsAnomaly(manoms, anomaly) # {})
        /\ UNCHANGED costVars
        /\ UNCHANGED <<metrics, detector, procs, spawned>>

MaxStoreTime == 2

\* what a detection reports for a sample: one reading, and another that differs
\* from it in severity, score, affected metrics and description
Readings ==
    {[severity |-> "low", anomaly_score |-> 10, affected_metrics |-> {"error_rate"},
      description |-> "IsolationForest"],
     [severity |-> "critical", anomaly_score |-> 90, affected_metrics |-> MetricNames,
      description |-> "ECOD"]}

AnomalyDicts ==
    {[service_name |-> "api", timestamp |-> t, anomaly_type |-> ty,
      severity |-> v.severity, anomaly_score |-> v.anomaly_score,
      affected_metrics |-> v.affected_metrics, description |-> v.description] :
        t \in 1..MaxStoreTime, ty \in {"metric_deviation", "cost"}, v \in Readings}

InitStore ==
    /\ CostIdle
    /\ today = 1
    /\ OthersIdle

NextStore == \E anomaly \in AnomalyDicts : StoreAnomaly(anomaly)

SpecStore == InitStore /\ [][NextStore]_vars

\* C16: a store_anomaly call for a (service, timestamp, anomaly_type) that is
\* already stored adds no row, returns the stored row and leaves the table as
\* it was, whatever values the new anomaly carries; the table never holds two
\* rows for one such key.
C16_StoreOnce ==
    [][call'.op = "store" =>
          LET old == ExistingMetricsAnomaly(manoms, call'.anomaly)
          IN  /\ old # {} => (manoms' = manoms /\ call'.returned \in old)
              /\ \A r \in BagToSet(manoms') :
                     /\ manoms'[r] = 1
                     /\ ExistingMetricsAnomaly(manoms', r) = {r}]_vars

\* a second store for a stored key came with other values and got the first
\* row back
C16_Witness ==
    /\ call.op = "store"
    /\ repeat
    /\ call.returned.severity # call.anomaly.severity
    /\ call.returned.anomaly_score # call.anomaly.anomaly_score
    /\ call.returned \in BagToSet(manoms)
    /\ BagSize(manoms) = 1

\* ---------------------------------------------------------------- health score
\* Scores and penalties are counted in thousandths of a point: error_rate in
\* ten-thousandths (10000 is 1.0), latency_p99 in milliseconds, cpu_usage in
\* tenths of a percent.
Min(a, b) == IF a < b THEN a ELSE b

Max(a, b) == IF a > b THEN a ELSE b

\* A score whose latency penalty is not capped.
calculate_health_score_uncapped(metric) ==
    Max(0, Min(100000,
        100000 - metric.error_rate * 5 - metric.latency_p99
               - Min(metric.cpu_usage * 100, 20000)))

\* calculate_health_score: 100 - E * 50 - min(L / 1000, 30) - min(C, 20),
\* then max(0, min(100, .))
calculate_health_score(metric) ==
    LET error_penalty == metric.error_rate * 5
        latency_penalty == Min(metric.latency_p99, 30000)
        cpu_penalty == Min(metric.cpu_usage * 100, 20000)
    IN  Max(0, Min(100000, 100000 - error_penalty - latency_penalty - cpu_penalty))

\* get_status_from_health
get_status_from_health(health_score) ==
    IF health_score >= 90000 THEN "healthy"
    ELSE IF health_score >= 70000 THEN "degraded"
    ELSE IF health_score >= 50000 THEN "warning"
    ELSE "critical"

\* get_health_summary, lines 243-244: the score of a snapshot and its status
HealthScore(metric) ==
    LET health_score == calculate_health_score(metric)
    IN  /\ call' = [op |-> "health_score", metric |-> metric, score |-> health_score,
                    status |-> get_status_from_health(health_score)]
        /\ repeat' = FALSE
        /\ UNCHANGED costVars
        /\ UNCHANGED otherVars

\* snapshots to score: error rates 0, 0.02, 0.2, 0.4, 1.0 and 1.2; latencies up
\* to 40 s; cpu 0, 10, 20, 40 and 100 percent
HealthSnapshots ==
    [error_rate : {0, 200, 2000, 4000, 10000, 12000},
     latency_p99 : {0, 1200, 10000, 30000, 40000},
     cpu_usage : {0, 100, 200, 400, 1000}]

InitHealth ==
    /\ CostIdle
    /\ today = 1
    /\ OthersIdle

NextHealth == \E metric \in HealthSnapshots : HealthScore(metric)

SpecHealth == InitHealth /\ [][NextHealth]_vars

\* error_rate in [0,1], latency_p99 >= 0, cpu_usage in [0,100]
ValidSnapshot(metric) ==
    /\ metric.error_rate >= 0 /\ metric.error_rate <= 10000
    /\ metric.latency_p99 >= 0
    /\ metric.cpu_usage >= 0 /\ metric.cpu_usage <= 1000

\* C17: for a snapshot in range the score is 100 - min(error_rate*50, 50)
\* - min(latency_p99/1000, 30) - min(cpu_usage, 20) kept within 0..100, the
\* status is healthy from 90, degraded from 70, warning from 50 and critical
\* below; {error_rate 0.02, latency_p99 1200, cpu_usage 40} scores 77.8,
\* degraded.
C17_HealthScore ==
    (call.op = "health_score" /\ ValidSnapshot(call.metric)) =>
        LET m == call.metric
            e == IF m.error_rate * 5 < 50000 THEN m.error_rate * 5 ELSE 50000
            l == IF m.latency_p99 < 30000 THEN m.latency_p99 ELSE 30000
            c == IF m.cpu_usage * 100 < 20000 THEN m.cpu_usage * 100 ELSE 20000
            raw_score == 100000 - e - l - c
            expected == IF raw_score < 0 THEN 0
                        ELSE IF raw_score > 100000 THEN 100000 ELSE raw_score
        IN  /\ call.score = expected
            /\ call.status = "healthy" <=> call.score >= 90000
            /\ call.status = "degraded" <=> (call.score >= 70000 /\ call.score < 90000)
            /\ call.status = "warning" <=> (call.score >= 50000 /\ call.score < 70000)
            /\ call.status = "critical" <=> call.score < 50000
            /\ (m.error_rate = 200 /\ m.latency_p99 = 1200 /\ m.cpu_usage = 400) =>
                   (call.score = 77800 /\ call.status = "degraded")

\* the example snapshot was scored 77.8 and rated degraded
C17_Witness ==
    /\ call.op = "health_score"
    /\ call.metric = [error_rate |-> 200, latency_p99 |-> 1200, cpu_usage |-> 400]
    /\ call.score = 77800
    /\ call.status = "degraded"

\* ---------------------------------------------------------------- concurrent recomputes
\* Two recompute_cost_anomalies invocations, each in its own session, over a
\* store with one combination.  An invocation reads the committed table when
\* it looks for an existing anomaly, keeps its changes in its session, and
\* writes them at db.commit().
Invocations == {1, 2}

RaceMinHistory == 1

Idle == [pc |-> "idle", idx |-> 0, found |-> {}, work |-> NoWork(EmptyBag)]

\* the frame of the store's combination, lines 52-88
RaceFrame ==
    LET latest_date == CHOOSE d \in {r.ts_date : r \in BagToSet(agg)} :
                           \A r \in BagToSet(agg) : d >= r.ts_date
        combo == CHOOSE c \in {Combo(r) : r \in BagToSet(agg)} : TRUE
    IN  SortRows(ComboRows(agg, combo, latest_date - DefaultHistoryWindowDays,
                           latest_date), ecod.rank)

\* the anomaly the loop body builds for the frame's row idx, lines 136-157
RaceAnomaly(idx) ==
    CostAnomaly(RaceFrame[idx][1], Combo(RaceFrame[idx][1]),
                RaceFrame[idx][1].total_cost, RollingMean(RaceFrame, idx))

\* lines 34-134: up to the first test row; a frame that is too short or has
\* zero variance is skipped
Begin(p) ==
    /\ procs[p].pc = "idle"
    /\ procs' = [procs EXCEPT ![p] =
           IF Len(RaceFrame) < RaceMinHistory \/ ZeroVariance(RaceFrame)
           THEN [@ EXCEPT !.pc = "commit"]
           ELSE [pc |-> "scan", idx |-> TrainSize(Len(RaceFrame), RaceMinHistory) + 1,
                 found |-> {}, work |-> NoWork(EmptyBag)]]
    /\ UNCHANGED <<call, repeat, metrics, manoms, detector, spawned>>
    /\ UNCHANGED costVars

\* lines 134-168: move to the next flagged test row and look its anomaly up
Query(p) ==
    /\ procs[p].pc = "scan"
    /\ LET idx == procs[p].idx
       IN  procs' = [procs EXCEPT ![p] =
               IF idx > Len(RaceFrame) THEN [@ EXCEPT !.pc = "commit"]
               ELSE IF RaceFrame[idx][1] \notin ecod.flagged THEN [@ EXCEPT !.idx = idx + 1]
               ELSE [@ EXCEPT !.pc = "write",
                              !.found = ExistingAnomaly(anoms, AnomalyKey(RaceAnomaly(idx)))]]
    /\ UNCHANGED <<call, repeat, metrics, manoms, detector, spawned>>
    /\ UNCHANGED costVars

\* lines 170-194: change the row found, or add a new one, in the session
Write(p) ==
    /\ procs[p].pc = "write"
    /\ LET new == RaceAnomaly(procs[p].idx)
           work == procs[p].work
           found == procs[p].found
       IN  procs' = [procs EXCEPT ![p] =
               [pc |-> "scan", idx |-> @.idx + 1, found |-> {},
                work |-> IF found # {}
                         THEN LET existing == CHOOSE r \in found : TRUE
                              IN  [work EXCEPT
                                      !.updates = SetUpdate(work.updates, existing,
                                                      [new EXCEPT !.region = existing.region]),
                                      !.count = work.count + 1]
                         ELSE [work EXCEPT !.inserts = BagAdd(work.inserts, new),
                                           !.count = work.count + 1]]]
    /\ UNCHANGED <<call, repeat, metrics, manoms, detector, spawned>>
    /\ UNCHANGED costVars

\* lines 201-202: db.commit(), return anomalies_detected
Commit(p) ==
    /\ procs[p].pc = "commit"
    /\ anoms' = ApplyUpdates(anoms, procs[p].work.updates) (+) procs[p].work.inserts
    /\ procs' = [procs EXCEPT ![p] = [@ EXCEPT !.pc = "done"]]
    /\ call' = [op |-> "anomalies", ret |-> procs[p].work.count]
    /\ repeat' = (call.op = "anomalies")
    /\ UNCHANGED <<raw, agg, ecod, budgets, today>>
    /\ UNCHANGED <<metrics, manoms, detector, spawned>>

MaxRaceLen == 3

\* one team, one region, a run of at least two days
RaceStores ==
    UNION {SeriesOf("eng", n, SeriesTotals) : n \in 2..MaxRaceLen}

InitRace ==
    /\ raw = EmptyBag
    /\ agg \in {SetToBag(S) : S \in RaceStores}
    /\ anoms = EmptyBag
    /\ ecod \in {o \in Oracles(agg) : o.failing = {}}
    /\ budgets = {}
    /\ today = MaxRaceLen
    /\ call = NoCall
    /\ repeat = FALSE
    /\ metrics = {}
    /\ manoms = EmptyBag
    /\ detector = NoFit
    /\ procs = [p \in Invocations |-> Idle]
    /\ spawned = {}

NextRace ==
    \E p \in Invocations : Begin(p) \/ Query(p) \/ Write(p) \/ Commit(p)

SpecRace == InitRace /\ [][NextRace]_vars

\* C18: when two concurrent recompute_cost_anomalies invocations have both
\* finished, the anomaly store holds at most one row per (date, provider,
\* team, service, env) key.
C18_RaceOneRowPerKey ==
    (\A p \in Invocations : procs[p].pc = "done") =>
        \A r1 \in BagToSet(anoms) :
            /\ anoms[r1] = 1
            /\ \A r2 \in BagToSet(anoms) : AnomalyKey(r1) = AnomalyKey(r2) => r1 = r2

\* ---------------------------------------------------------------- shared detectors
\* Two detect_anomalies calls, one per service, on the one
\* AnomalyDetectionService object (line 336): isolation_forest and ecod_model
\* are attributes of that object, so a fit by one call replaces the model the
\* other call reads.  detector.iso and detector.ecod name the service whose
\* window the model was last fitted on; detector.knows is what a model fitted
\* on a service's window says about that window.
Callers == [c1 |-> "api", c2 |-> "db"]

NotStarted == [pc |-> "idle", predictions |-> {}, iso_scored_by |-> "<None>",
               labels |-> {}, ecod_scored_by |-> "<None>", result |-> <<>>]

\* line 135: isolation_forest.fit_predict(features)
FitPredict(p) ==
    /\ procs[p].pc = "idle"
    /\ ~TooFew(InWindow(metrics, Callers[p], DefaultHours, today))
    /\ detector' = [detector EXCEPT !.iso = Callers[p]]
    /\ procs' = [procs EXCEPT ![p] =
           [@ EXCEPT !.pc = "iso_fitted",
                     !.predictions = detector.knows[Callers[p]].iso_flags]]
    /\ UNCHANGED <<call, repeat, metrics, manoms, spawned>>
    /\ UNCHANGED costVars

\* line 136: isolation_forest.score_samples(features), by the model as fitted now
ScoreSamples(p) ==
    /\ procs[p].pc = "iso_fitted"
    /\ procs' = [procs EXCEPT ![p] =
           [@ EXCEPT !.pc = "iso_scored", !.iso_scored_by = detector.iso]]
    /\ UNCHANGED <<call, repeat, metrics, manoms, detector, spawned>>
    /\ UNCHANGED costVars

\* line 162: ecod_model.fit(features)
EcodFit(p) ==
    /\ procs[p].pc = "iso_scored"
    /\ detector' = [detector EXCEPT !.ecod = Callers[p]]
    /\ procs' = [procs EXCEPT ![p] = [@ EXCEPT !.pc = "ecod_fitted"]]
    /\ UNCHANGED <<call, repeat, metrics, manoms, spawned>>
    /\ UNCHANGED costVars

\* line 163: predictions = ecod_model.labels_, the labels of the latest fit,
\* matched to this call's samples by position
ReadLabels(p) ==
    /\ procs[p].pc = "ecod_fitted"
    /\ procs' = [procs EXCEPT ![p] =
           [@ EXCEPT !.pc = "labels_read",
                     !.labels = detector.knows[detector.ecod].ecod_flags]]
    /\ UNCHANGED <<call, repeat, metrics, manoms, detector, spawned>>
    /\ UNCHANGED costVars

\* the score a model fitted on service `by` gives a sample of service `of`
IsoScore(of, by) ==
    IF of = by THEN detector.knows[of].iso_score ELSE detector.knows[of].iso_cross

\* lines 164-195: scores = ecod_model.decision_scores_, the anomaly list, return
Finish(p) ==
    /\ procs[p].pc = "labels_read"
    /\ LET me == Callers[p]
           iso == [raised |-> FALSE,
                   flags |-> [t \in procs[p].predictions |->
                                 IsoScore(me, procs[p].iso_scored_by)]]
           ec == [raised |-> FALSE,
                  flags |-> [t \in procs[p].labels |->
                                detector.knows[detector.ecod].ecod_score]]
           result == detect_anomalies(metrics, me, DefaultHours, today, iso, ec)
       IN  /\ procs' = [procs EXCEPT ![p] =
                  [@ EXCEPT !.pc = "done", !.ecod_scored_by = detector.ecod,
                            !.result = result]]
           /\ call' = [op |-> "detect", service_name |-> me, hours |-> DefaultHours,
                       iso |-> iso, ec |-> ec, result |-> result]
    /\ repeat' = FALSE
    /\ UNCHANGED <<metrics, manoms, detector, spawned>>
    /\ UNCHANGED costVars

\* What models fitted on a service's own window say about it: the samples
\* each detector labels and the scores it gives; iso_cross is the score the
\* isolation forest gives the service's samples when fitted on another window.
Knowledge(service_name, own_score) ==
    [iso_flags : SUBSET {today},
     iso_score : {own_score},
     iso_cross : {own_score, own_score + 10},
     ecod_flags : SUBSET {today - 1, today},
     ecod_score : {own_score + 20}]

InitShared ==
    /\ CostIdle
    /\ today = DefaultHours + MinSamples
    /\ metrics = Snapshots("api", MinSamples, today, {})
                     \cup Snapshots("db", MinSamples, today, {})
    /\ manoms = EmptyBag
    /\ \E ka \in Knowledge("api", 60), kd \in Knowledge("db", 50) :
           detector = [iso |-> "<None>", ecod |-> "<None>",
                       knows |-> [api |-> ka, db |-> kd]]
    /\ procs = [p \in DOMAIN Callers |-> NotStarted]
    /\ spawned = {}

NextShared ==
    \E p \in DOMAIN Callers :
        FitPredict(p) \/ ScoreSamples(p) \/ EcodFit(p) \/ ReadLabels(p) \/ Finish(p)

SpecShared == InitShared /\ [][NextShared]_vars

\* what detect_anomalies reports for a service when no other call is running
Alone(service_name) ==
    LET k == detector.knows[service_name]
    IN  detect_anomalies(metrics, service_name, DefaultHours, today,
            [raised |-> FALSE, flags |-> [t \in k.iso_flags |-> k.iso_score]],
            [raised |-> FALSE, flags |-> [t \in k.ecod_flags |-> k.ecod_score]])

\* C19: a detect_anomalies call reports for its service what it reports when
\* it runs alone, also when a call for another service runs before it or at
\* the same time on the shared service object.
C19_DetectIndependent ==
    \A p \in DOMAIN Callers :
        procs[p].pc = "done" => procs[p].result = Alone(Callers[p])

\* ---------------------------------------------------------------- the /run command
\* A command is the list of its whitespace-separated words.  The handler
\* looks at the first word; the shell it hands the whole command to starts
\* the first word of every part between the operators ; and &&.
safe_commands == {"npm", "python", "pytest", "eslint", "tsc", "git", "ls", "dir", "cat", "type"}

ShellOperators == {";", "&&"}

RECURSIVE ProgramsRun(_, _, _)
\* The programs the shell starts for the words from position i on; ok says
\* whether the programs it runs succeed (a part after && runs only then).
ProgramsRun(command_parts, i, ok) ==
    IF i > Len(command_parts) THEN {}
    ELSE IF command_parts[i] \in ShellOperators
         THEN IF command_parts[i] = "&&" /\ ~ok THEN {}
              ELSE ProgramsRun(command_parts, i + 1, ok)
    ELSE LET first == i = 1 \/ command_parts[i - 1] \in ShellOperators
         IN  (IF first THEN {command_parts[i]} ELSE {})
                 \cup ProgramsRun(command_parts, i + 1, ok)

\* _execute_command: refuse unless the first word is a safe command, else
\* asyncio.create_subprocess_shell(command)
ExecuteCommand(command_parts, ok) ==
    /\ IF command_parts = <<>> \/ command_parts[1] \notin safe_commands
       THEN /\ call' = [op |-> "run", command |-> command_parts,
                        reply |-> "Command Not Allowed"]
            /\ spawned' = spawned
       ELSE /\ call' = [op |-> "run", command |-> command_parts,
                        reply |-> "Command Executed"]
            /\ spawned' = spawned \cup ProgramsRun(command_parts, 1, ok)
    /\ repeat' = FALSE
    /\ UNCHANGED costVars
    /\ UNCHANGED <<metrics, manoms, detector, procs>>

MaxWords == 3

Words == {"ls", "rm", "-rf", ";", "&&"}

\* `^/run\s+(.+)$` on the stripped question: at least one word
Commands == UNION {[1..n -> Words] : n \in 1..MaxWords}

InitRun ==
    /\ CostIdle
    /\ today = 1
    /\ OthersIdle

NextRun == \E command_parts \in Commands, ok \in BOOLEAN : ExecuteCommand(command_parts, ok)

SpecRun == InitRun /\ [][NextRun]_vars

\* C20: every program started as a result of a /run request is one of the
\* safe commands, and a command whose first word is not one of them is
\* answered "Command Not Allowed".
C20_OnlySafePrograms ==
    /\ spawned \subseteq safe_commands
    /\ (call.op = "run" /\ call.command[1] \notin safe_commands) =>
           call.reply = "Command Not Allowed"

\* ---------------------------------------------------------------- month-to-date claims
\* the month a budget_statuses call reports on
ReportedMonth == IF call.month = NoDate THEN MonthOf(today) ELSE MonthOf(call.month)

\* the last day it counts: today in the current month, else the month's last day
LastCountedDay ==
    IF ReportedMonth = MonthOf(today) THEN today
    ELSE Date(ReportedMonth, DaysInMonth(ReportedMonth))

\* the aggregate rows a budget's month-to-date cost is made of
BudgetRows(budget) ==
    {row \in BagToSet(agg) :
        /\ MonthOf(row.ts_date) = ReportedMonth
        /\ row.ts_date <= LastCountedDay
        /\ row.team = budget.team
        /\ budget.service # NULL => row.service = budget.service}

\* C21: for each budget, mtd_cost is the sum of the aggregate totals dated from
\* the first day of the target month through the current day (today in the
\* current month, the month's last day otherwise), of the budget's team and,
\* for a service-scoped budget, of its service; projected_cost is
\* (mtd_cost / days_elapsed) * days_in_month, or 0 when days_elapsed is 0.
C21_MonthToDate ==
    call.op = "budget_statuses" =>
        \A budget \in DOMAIN call.results :
            LET r == call.results[budget]
                rows == BudgetRows(budget)
                days_elapsed == LastCountedDay - Date(ReportedMonth, 1) + 1
            IN  /\ r.mtd_cost = SumOver(rows, [row \in rows |-> agg[row] * row.total_cost])
                /\ IF days_elapsed = 0 THEN r.projected_cost.num = 0
                   ELSE r.projected_cost.num * days_elapsed
                            = r.mtd_cost * DaysInMonth(ReportedMonth) * r.projected_cost.den

\* a service-scoped budget reported for a past month: one row of its service
\* counted, a row of another service of the same team left out
C21_Witness ==
    /\ call.op = "budget_statuses"
    /\ ReportedMonth # MonthOf(today)
    /\ \E budget \in DOMAIN call.results :
           /\ budget.service = "api"
           /\ call.results[budget].mtd_cost > 0
           /\ \E row \in BagToSet(agg) :
                  /\ row \notin BudgetRows(budget)
                  /\ row.team = budget.team
                  /\ MonthOf(row.ts_date) = ReportedMonth
           /\ call.results[budget].projected_cost.num
                  = call.results[budget].mtd_cost * call.results[budget].projected_cost.den

\* ---------------------------------------------------------------- regions of a combination
\* The aggregate store keeps one row per region; a combination leaves the
\* region out, so its frame holds one row per (day, region).  One combination
\* over a run of days, in one region or in two, at 100 a row except on the
\* last day.
MaxExtraDays == 1

RegionRow(day, region, total) ==
    [ts_date |-> day, cloud |-> "aws", team |-> "eng", service |-> "api",
     region |-> region, env |-> "prod", total_cost |-> total]

\* day counts around the default minimum: half of it doubles to the minimum
\* with two regions
RegionDayCounts ==
    {2, DefaultMinHistoryDays \div 2}
        \cup {DefaultMinHistoryDays \div 2 + i : i \in 1..MaxExtraDays}
        \cup {DefaultMinHistoryDays + i : i \in 1..MaxExtraDays}

RegionStores ==
    UNION {{{RegionRow(d, g, 100) : d \in 1..(n - 1), g \in regions}
                \cup {RegionRow(n, g, f[g]) : g \in regions} :
            f \in [regions -> SeriesTotals]} :
        n \in RegionDayCounts, regions \in {{"us"}, {"us", "eu"}}}

\* the rows of the last TestDays dates of a store
LateRows(a) ==
    {r \in BagToSet(a) : \A x \in BagToSet(a) : r.ts_date > x.ts_date - TestDays}

\* the detector's answers: it raises for the combination, or it scores some of
\* the late rows above its threshold
LateOracles(a) ==
    [flagged : SUBSET LateRows(a), failing : {{}},
     rank : Rankings({r.region : r \in BagToSet(a)})]
        \cup [flagged : {{}}, failing : {{Combo(r) : r \in BagToSet(a)}},
              rank : {CHOOSE rk \in Rankings({r.region : r \in BagToSet(a)}) : TRUE}]

RegionMinHistory == {TestDays, DefaultMinHistoryDays}

InitRegions ==
    /\ raw = EmptyBag
    /\ agg \in {SetToBag(S) : S \in RegionStores}
    /\ anoms = EmptyBag
    /\ ecod \in LateOracles(agg)
    /\ budgets = {}
    /\ today \in {r.ts_date : r \in LateRows(agg)} \ {r.ts_date - 1 : r \in LateRows(agg)}
    /\ call = NoCall
    /\ repeat = FALSE
    /\ OthersIdle

NextRegions ==
    \E mh \in RegionMinHistory :
        RecomputeCostAnomaliesWith(mh, DefaultHistoryWindowDays)

SpecRegions == InitRegions /\ [][NextRegions]_vars

\* ---------------------------------------------------------------- minimum history claims
\* the days of history a combination has in the window ending at the latest
\* aggregate date
DaysOfHistory(combo, history_window_days) ==
    Cardinality({r.ts_date : r \in {x \in RowsOf(combo) :
        \A y \in BagToSet(agg) : x.ts_date >= y.ts_date - history_window_days}})

\* the anomaly rows of a combination
AnomaliesOf(db, combo) ==
    [r \in {x \in BagToSet(db) : <<x.cloud, x.team, x.service, x.env>> = combo} |-> db[r]]

\* C22: recompute_cost_anomalies upserts no anomaly for a combination that has
\* fewer than min_history_days days of aggregate history inside the window:
\* the call leaves the combination's anomaly rows as they were.
C22_ShortHistorySkipped ==
    [][call'.op = "anomalies" =>
          \A combo \in {Combo(r) : r \in BagToSet(agg)} :
              DaysOfHistory(combo, DefaultHistoryWindowDays) < call'.min_history_days =>
                  AnomaliesOf(anoms', combo) = AnomaliesOf(anoms, combo)]_vars

\* ---------------------------------------------------------------- training prefix claims
\* the combination's history points in the order the run takes them
Frame(combo) ==
    LET latest_date == CHOOSE d \in {r.ts_date : r \in BagToSet(agg)} :
                           \A r \in BagToSet(agg) : d >= r.ts_date
    IN  SortRows(ComboRows(agg, combo, latest_date - DefaultHistoryWindowDays, latest_date),
                 ecod.rank)

\* the days of the first max(min_history_days, n - 3) points
TrainingDays(combo, min_history_days) ==
    LET df == Frame(combo)
    IN  {df[i][1].ts_date : i \in 1..Min(Len(df), TrainSize(Len(df), min_history_days))}

\* the points after them
TestPoints(combo, min_history_days) ==
    LET df == Frame(combo)
    IN  {df[i][1] : i \in (TrainSize(Len(df), min_history_days) + 1)..Len(df)}

\* the last 3 days of the combination's series
LastDays(combo) ==
    LET days == {r.ts_date : r \in RowsOf(combo)}
    IN  {d \in days : Cardinality({e \in days : e > d}) < TestDays}

\* the anomalies a first run stored for a combination
StoredFor(combo) == {x \in BagToSet(anoms) : <<x.cloud, x.team, x.service, x.env>> = combo}

\* C23: a run flags only points after the first max(min_history_days, n - 3)
\* points of a combination: every flagged date is among the last 3 days of the
\* series, no day of the training prefix is flagged, and a combination with
\* exactly min_history_days points yields no anomaly.
C23_OnlyTestSuffixFlagged ==
    (call.op = "anomalies" /\ ~repeat) =>
        \A combo \in {Combo(r) : r \in BagToSet(agg)} :
            /\ \A x \in StoredFor(combo) :
                   /\ x.ts_date \in LastDays(combo)
                   /\ x.ts_date \notin TrainingDays(combo, call.min_history_days)
            /\ Len(Frame(combo)) = call.min_history_days => StoredFor(combo) = {}

\* ---------------------------------------------------------------- cost ingestion
\* An export file is a sequence of rows; a row is the text of its date and
\* cost cells, the other cells being well formed.
MaxFileRows == 2

\* the first day of the model's calendar, as an export writes it
DateCells == {"2024-01-01", "abc"}

\* a positive amount, zero, a credit, an empty cell, text
CostCells == {"2", "0", "-1", "", "abc"}

\* a well-formed date beside any cost cell, or a valid amount beside a bad date
FileRow ==
    {row \in [usage_date : DateCells, cost : CostCells] :
        row.usage_date = "2024-01-01" \/ row.cost = "2"}

Files == UNION {[1..n -> FileRow] : n \in 1..MaxFileRows}

\* pd.to_datetime(cell) / datetime.strptime(cell, '%Y-%m-%d'): the date, or
\* NoDate when the parser raises
ParseDate(cell) == IF cell = "2024-01-01" THEN 1 ELSE NoDate

\* pd.read_csv reads a cost column whose cells are all numbers or empty as
\* floats (an empty cell is NaN), and any other column as text
IsNumeric(cell) == cell \in {"2", "0", "-1", ""}

\* the float of a numeric cell; NaN compares false with everything
IsNaN(cell) == cell = ""

ParseCost(cell) == IF cell = "2" THEN 2 ELSE IF cell = "-1" THEN -1 ELSE 0

\* `normalized_df['cost'] > 0`
CostPositive(cell) == ~IsNaN(cell) /\ ParseCost(cell) > 0

\* CloudCost(...) built from a row of a file without label columns
CloudCostOf(cloud, row) ==
    [ts_date |-> ParseDate(row.usage_date), cloud |-> cloud, team |-> NULL,
     service |-> "api", region |-> "us", env |-> NULL,
     cost_amount |-> ParseCost(row.cost)]

RECURSIVE BulkSave(_, _, _)
\* db.bulk_save_objects(batch); db.commit()
BulkSave(db, cloud, rows) ==
    IF rows = <<>> THEN db
    ELSE BulkSave(BagAdd(db, CloudCostOf(cloud, Head(rows))), cloud, Tail(rows))

Rejected(db) == [raw |-> db, status |-> 400]

\* ingest_aws_cost_csv: the module never imports csv, so csv.DictReader raises
\* NameError at the first statement that parses the file; `except Exception`
\* turns it into a 400 and nothing is stored.
ingest_aws_cost_csv(db, file) == Rejected(db)

\* ingest_gcp_cost_file and ingest_azure_cost_csv: the date column is converted
\* as a whole and the cost column compared as a whole; either raising rejects
\* the file.  The rows with cost > 0 are stored; with none of them the
\* statistics of the empty frame fail the response model.
ingest_dataframe(db, cloud, file) ==
    IF \E i \in 1..Len(file) : ParseDate(file[i].usage_date) = NoDate THEN Rejected(db)
    ELSE IF \E i \in 1..Len(file) : ~IsNumeric(file[i].cost) THEN Rejected(db)
    ELSE LET IsKept(row) == CostPositive(row.cost)
             records == SelectSeq(file, IsKept)
         IN  [raw |-> BulkSave(db, cloud, records),
              status |-> IF records = <<>> THEN 400 ELSE 200]

ingest_gcp_cost_file(db, file) == ingest_dataframe(db, "gcp", file)

ingest_azure_cost_csv(db, file) == ingest_dataframe(db, "azure", file)

\* POST /upload/{aws,gcp,azure}, while the store holds few rows
Upload(cloud, file) ==
    LET res == IF cloud = "aws" THEN ingest_aws_cost_csv(raw, file)
               ELSE IF cloud = "gcp" THEN ingest_gcp_cost_file(raw, file)
               ELSE ingest_azure_cost_csv(raw, file)
    IN  /\ BagSize(raw) < MaxFileRows
        /\ raw' = res.raw
        /\ call' = [op |-> "upload", cloud |-> cloud, file |-> file,
                    status |-> res.status]
        /\ repeat' = FALSE
        /\ UNCHANGED <<agg, anoms, ecod, budgets, today>>
        /\ UNCHANGED otherVars

InitIngest ==
    /\ CostIdle
    /\ today = 1
    /\ OthersIdle

NextIngest == \E cloud \in {"aws", "gcp", "azure"}, file \in Files : Upload(cloud, file)

SpecIngest == InitIngest /\ [][NextIngest]_vars

\* ---------------------------------------------------------------- ingestion claims
\* a row an export may carry and the store may keep: a date and a positive amount
ValidRow(row) == row.usage_date = "2024-01-01" /\ row.cost = "2"

\* the number of valid rows of a file
ValidCount(file) == Cardinality({i \in 1..Len(file) : ValidRow(file[i])})

\* C24: an upload skips each malformed row and each row with a non-positive
\* amount and stores every valid row of the file, whatever the other rows are;
\* no stored raw cost record has amount <= 0.
C24_BadRowsSkipped ==
    [][call'.op = "upload" =>
          /\ BagSize(raw') = BagSize(raw) + ValidCount(call'.file)
          /\ \A c \in BagToSet(raw) : raw'[c] >= raw[c]
          /\ \A c \in BagToSet(raw') : c.cost_amount > 0]_vars

\* ---------------------------------------------------------------- collecting metrics
\* The clock (today) counts whole time steps here; error_rate is counted in
\* ten-thousandths, latencies in ms, usages in tenths of a percent.
MaxCollectTime == 2

\* ServiceMetric(...): the row of a snapshot
ServiceMetric(service_name, timestamp, v) ==
    [service_name |-> service_name, timestamp |-> timestamp,
     request_rate |-> v.request_rate, error_rate |-> v.error_rate,
     latency_p50 |-> v.latency_p50, latency_p95 |-> v.latency_p95,
     latency_p99 |-> v.latency_p99, cpu_usage |-> v.cpu_usage,
     memory_usage |-> v.memory_usage, restart_count |-> v.restart_count,
     pod_count |-> v.pod_count]

\* the row the look-up of collect_metrics finds
ExistingMetric(ms, service_name, timestamp) ==
    {x \in ms : x.service_name = service_name /\ x.timestamp = timestamp}

\* collect_metrics(db, service_name, ..., timestamp): timestamp NoDate means
\* datetime.utcnow(); an existing row takes the new values, else a row is added
collect_metrics(ms, service_name, v, timestamp, now) ==
    LET ts == IF timestamp = NoDate THEN now ELSE timestamp
        existing == ExistingMetric(ms, service_name, ts)
        metric == ServiceMetric(service_name, ts, v)
    IN  [metrics |-> (ms \ existing) \cup {metric}, returned |-> metric,
         updated |-> existing # {}]

CollectMetrics(service_name, v, timestamp) ==
    LET res == collect_metrics(metrics, service_name, v, timestamp, today)
    IN  /\ metrics' = res.metrics
        /\ call' = [op |-> "collect", returned |-> res.returned, updated |-> res.updated]
        /\ repeat' = FALSE
        /\ UNCHANGED costVars
        /\ UNCHANGED <<manoms, detector, procs, spawned>>

\* time passes
Tick ==
    /\ today < MaxCollectTime
    /\ today' = today + 1
    /\ call' = [op |-> "tick"]
    /\ repeat' = FALSE
    /\ UNCHANGED <<raw, agg, anoms, ecod, budgets>>
    /\ UNCHANGED otherVars

\* the defaults of collect_metrics, and a loaded service
MetricValues ==
    {[request_rate |-> 0, error_rate |-> 0, latency_p50 |-> 0, latency_p95 |-> 0,
      latency_p99 |-> 0, cpu_usage |-> 0, memory_usage |-> 0, restart_count |-> 0,
      pod_count |-> 0],
     [request_rate |-> 100, error_rate |-> 200, latency_p50 |-> 100, latency_p95 |-> 600,
      latency_p99 |-> 1200, cpu_usage |-> 400, memory_usage |-> 500, restart_count |-> 1,
      pod_count |-> 3]}

InitCollect ==
    /\ CostIdle
    /\ today = 1
    /\ OthersIdle

NextCollect ==
    \/ \E service_name \in MetricServices, v \in MetricValues,
          timestamp \in (1..MaxCollectTime) \cup {NoDate} :
           CollectMetrics(service_name, v, timestamp)
    \/ Tick

SpecCollect == InitCollect /\ [][NextCollect]_vars

\* ---------------------------------------------------------------- snapshot claims
\* C25: a stored snapshot is immutable: once a snapshot exists for a
\* (service, timestamp), no later collect_metrics call changes any of its
\* metric values.
C25_SnapshotImmutable ==
    [][\A x \in metrics : x \in metrics']_vars

\* ---------------------------------------------------------------- listing anomalies
MaxListed == 3

\* `timedelta(days=30)`: the default look-back of the listing
ListingWindowDays == 30

\* severity_levels = {"low": 0, "medium": 1, "high": 2}
severity_levels == [low |-> 0, medium |-> 1, high |-> 2]

\* The place of a severity in the order of the strings: CostAnomaly.severity
\* is a String column, and "high" < "low" < "medium" as text.
TextRank(severity) ==
    IF severity = "high" THEN 1 ELSE IF severity = "low" THEN 2 ELSE 3

\* `order_by(desc(ts_date), desc(severity))`: x may come before y
ListedBefore(x, y) ==
    \/ x.ts_date > y.ts_date
    \/ x.ts_date = y.ts_date /\ TextRank(x.severity) >= TextRank(y.severity)

\* the rows the query selects, as (row, copy) pairs
Selected(db, from_date, to_date, min_severity, now) ==
    LET to == IF to_date = NoDate THEN now ELSE to_date
        from == IF from_date = NoDate THEN to - ListingWindowDays ELSE from_date
        min_level == severity_levels[min_severity]
    IN  {rc \in RowCopies(db) :
            /\ rc[1].ts_date >= from
            /\ rc[1].ts_date <= to
            /\ min_level > 0 => severity_levels[rc[1].severity] >= min_level}

\* the orders the query may return them in: rows equal in date and severity
\* come in any order
Listings(S) ==
    {[i \in 1..Cardinality(S) |-> f[i][1]] :
        f \in {g \in [1..Cardinality(S) -> S] :
                  /\ \A i \in 1..Cardinality(S), j \in 1..Cardinality(S) :
                         g[i] = g[j] => i = j
                  /\ \A i \in 1..Cardinality(S), j \in 1..Cardinality(S) :
                         i < j => ListedBefore(g[i][1], g[j][1])}}

\* GET /anomalies?from=&to=&min_severity=
GetCostAnomalies(from_date, to_date, min_severity, anomalies) ==
    /\ anomalies \in Listings(Selected(anoms, from_date, to_date, min_severity, today))
    /\ call' = [op |-> "list_anomalies", min_severity |-> min_severity,
                anomalies |-> anomalies]
    /\ repeat' = FALSE
    /\ UNCHANGED costVars
    /\ UNCHANGED otherVars

ListedDates == 1..2

\* an anomaly of team "eng" on a day, with a severity
ListedAnomaly(day, severity) ==
    [ts_date |-> day, cloud |-> "aws", team |-> "eng", service |-> "api",
     region |-> NULL, env |-> "prod", actual_cost |-> 400,
     expected_cost |-> Ratio(175, 1), direction |-> "spike", severity |-> severity]

ListedStores ==
    {S \in SUBSET {ListedAnomaly(d, v) : d \in ListedDates, v \in DOMAIN severity_levels} :
        Cardinality(S) <= MaxListed}

InitListing ==
    /\ raw = EmptyBag
    /\ agg = EmptyBag
    /\ anoms \in {SetToBag(S) : S \in ListedStores}
    /\ ecod = NoOracle
    /\ budgets = {}
    /\ today = 2
    /\ call = NoCall
    /\ repeat = FALSE
    /\ OthersIdle

NextListing ==
    \E from_date \in ListedDates \cup {NoDate}, to_date \in ListedDates \cup {NoDate},
       min_severity \in DOMAIN severity_levels :
        \E anomalies \in Listings(Selected(anoms, from_date, to_date, min_severity, today)) :
            GetCostAnomalies(from_date, to_date, min_severity, anomalies)

SpecListing == InitListing /\ [][NextListing]_vars

\* ---------------------------------------------------------------- listing claims
\* C26: the listing is ordered by date descending and, among anomalies of the
\* same date, by severity descending in the order low < medium < high.
C26_ListingOrder ==
    call.op = "list_anomalies" =>
        \A i \in 1..Len(call.anomalies), j \in 1..Len(call.anomalies) :
            i < j =>
                \/ call.anomalies[i].ts_date > call.anomalies[j].ts_date
                \/ /\ call.anomalies[i].ts_date = call.anomalies[j].ts_date
                   /\ severity_levels[call.anomalies[i].severity]
                          >= severity_levels[call.anomalies[j].severity]

\* ---------------------------------------------------------------- frame of the aggregator
\* The aggregator run beside a budget and an anomaly that are already stored.
InitFrame ==
    /\ raw = EmptyBag
    /\ agg = EmptyBag
    /\ anoms = SetToBag({ListedAnomaly(1, "high")})
    /\ ecod = NoOracle
    /\ budgets = {[team |-> "eng", service |-> NULL, monthly_budget_amount |-> 1000]}
    /\ today = 1
    /\ call = NoCall
    /\ repeat = FALSE
    /\ OthersIdle

SpecFrame == InitFrame /\ [][Next]_vars

\* a date outside the range a recompute worked on
OutsideRange(range, ts_date) ==
    range = NoRange \/ ts_date < range[1] \/ ts_date > range[2]

\* C27: recompute_aggregates(start, end) changes nothing except aggregate rows
\* dated inside [start, end]: raw cost records, budgets, anomalies and every
\* aggregate row dated outside the range are left as they were, no row appears
\* outside the range, and no aggregate row is deleted.
C27_OnlyRangeTouched ==
    [][call'.op = "recompute" =>
          /\ raw' = raw /\ budgets' = budgets /\ anoms' = anoms
          /\ \A row \in BagToSet(agg) \cup BagToSet(agg') :
                 OutsideRange(call'.range, row.ts_date) =>
                     /\ row \in BagToSet(agg) /\ row \in BagToSet(agg')
                     /\ agg'[row] = agg[row]
          /\ \A row \in BagToSet(agg) :
                 \E kept \in BagToSet(agg') : KeyOf(kept) = KeyOf(row)
          /\ BagSize(agg') >= BagSize(agg)]_vars

\* a recompute over day 2 alone stored a row while the store held a row of
\* day 1, beside a stored budget and a stored anomaly
C27_Witness ==
    /\ call.op = "recompute"
    /\ budgets # {} /\ anoms # EmptyBag
    /\ call.range = <<2, 2>>
    /\ call.ret >= 1
    /\ \E row \in BagToSet(agg) : row.ts_date = 1
    /\ \E row \in BagToSet(agg) : row.ts_date = 2

\* ---------------------------------------------------------------- the two reads of detect_anomalies
\* detect_anomalies reads the window twice: get_metric_features builds the
\* feature matrix from one query, and a second query with its own cutoff gives
\* the snapshots the matrix rows are paired with by position.  Between the two
\* the clock moves and another request may store a snapshot.  The clock counts
\* hours here.
MaxClockSteps == 1

ReadsStart == DefaultHours + MinSamples

\* the values of a loaded service, and the defaults of collect_metrics
LoadedValues == CHOOSE v \in MetricValues : v.pod_count > 0

\* n hourly snapshots of a service ending now
StoredSnapshots(service_name, n, now) ==
    {ServiceMetric(service_name, now - i, LoadedValues) : i \in 0..(n - 1)}

\* lines 75-80 and 123-127: the service's snapshots at or after the cutoff,
\* by timestamp
WindowQuery(service_name, hours) ==
    ByTimestamp(InWindow(metrics, service_name, hours, today))

\* line 116: features = self.get_metric_features(db, service_name, hours);
\* fewer than 10 rows end the call
GetMetricFeatures(service_name, hours) ==
    LET features == WindowQuery(service_name, hours)
    IN  /\ procs = <<>>
        /\ IF Len(features) < MinSamples
           THEN /\ procs' = procs
                /\ call' = [op |-> "detect_reads", features |-> features,
                            metrics |-> features, result |-> <<>>]
           ELSE /\ procs' = <<[pc |-> "features", service_name |-> service_name,
                               hours |-> hours, features |-> features, metrics |-> <<>>]>>
                /\ call' = [op |-> "get_metric_features"]
        /\ repeat' = FALSE
        /\ UNCHANGED costVars
        /\ UNCHANGED <<metrics, manoms, detector, spawned>>

\* lines 123-127: the second query
QueryMetrics ==
    /\ procs # <<>>
    /\ procs[1].pc = "features"
    /\ procs' = <<[procs[1] EXCEPT !.pc = "metrics",
                                   !.metrics = WindowQuery(procs[1].service_name,
                                                           procs[1].hours)]>>
    /\ call' = [op |-> "query_metrics"]
    /\ repeat' = FALSE
    /\ UNCHANGED costVars
    /\ UNCHANGED <<metrics, manoms, detector, spawned>>

RECURSIVE LabelPass(_, _, _, _, _, _)
\* lines 143-152 and 178-189: for each flagged row i of the matrix, an anomaly
\* with the timestamp of metrics[i]; sample is the snapshot row i was built
\* from.  metrics[i] past the end of the list raises IndexError, which the
\* except clause of the pass logs.
LabelPass(features, ms, flagged, i, anomalies, detector_name) ==
    IF i > Len(features) THEN anomalies
    ELSE IF i \notin flagged
    THEN LabelPass(features, ms, flagged, i + 1, anomalies, detector_name)
    ELSE IF i > Len(ms) THEN anomalies
    ELSE LET anomaly == [timestamp |-> ms[i].timestamp, sample |-> features[i],
                         description |-> detector_name]
             seen == \E k \in 1..Len(anomalies) : anomalies[k].timestamp = anomaly.timestamp
         IN  LabelPass(features, ms, flagged, i + 1,
                       IF detector_name = "ECOD" /\ seen THEN anomalies
                       ELSE Append(anomalies, anomaly),
                       detector_name)

\* lines 131-195: both detectors run over the matrix; iso and ec are the rows
\* they flag
RunDetectors(iso, ec) ==
    /\ procs # <<>>
    /\ procs[1].pc = "metrics"
    /\ LET features == procs[1].features
           ms == procs[1].metrics
           first == LabelPass(features, ms, iso, 1, <<>>, "IsolationForest")
       IN  call' = [op |-> "detect_reads", features |-> features, metrics |-> ms,
                    result |-> LabelPass(features, ms, ec, 1, first, "ECOD")]
    /\ procs' = <<>>
    /\ repeat' = FALSE
    /\ UNCHANGED costVars
    /\ UNCHANGED <<metrics, manoms, detector, spawned>>

\* datetime.utcnow() moves on
UtcNowAdvances ==
    /\ today < ReadsStart + MaxClockSteps
    /\ today' = today + 1
    /\ call' = [op |-> "tick"]
    /\ repeat' = FALSE
    /\ UNCHANGED <<raw, agg, anoms, ecod, budgets>>
    /\ UNCHANGED otherVars

\* another request stores a snapshot: now, or for an hour already past
CollectBeside(v, timestamp) ==
    /\ Cardinality(metrics) <= MinSamples + MaxExtraSnapshots
    /\ CollectMetrics("api", v, timestamp)

InitReads ==
    /\ CostIdle
    /\ today = ReadsStart
    /\ \E n \in {MinSamples, MinSamples + MaxExtraSnapshots} :
           metrics = StoredSnapshots("api", n, today)
    /\ manoms = EmptyBag
    /\ detector = NoFit
    /\ procs = <<>>
    /\ spawned = {}

NextReads ==
    \/ \E hours \in {MinSamples - 1, DefaultHours} : GetMetricFeatures("api", hours)
    \/ QueryMetrics
    \/ \E iso \in SUBSET {1, MinSamples}, ec \in SUBSET {1, MinSamples} : RunDetectors(iso, ec)
    \/ UtcNowAdvances
    \/ \E v \in MetricValues, timestamp \in {NoDate, ReadsStart - MinSamples} :
           CollectBeside(v, timestamp)

SpecReads == InitReads /\ [][NextReads]_vars

\* ---------------------------------------------------------------- claims on the two reads
\* C28: every anomaly detect_anomalies returns carries the timestamp of the
\* snapshot whose feature vector was flagged, the feature matrix and the
\* snapshot list describing the same snapshots in the same order, whatever
\* happens between the two reads.
C28_TimestampOfFlaggedSample ==
    call.op = "detect_reads" =>
        /\ call.features = call.metrics
        /\ \A k \in 1..Len(call.result) :
               call.result[k].timestamp = call.result[k].sample.timestamp

\* ---------------------------------------------------------------- frame of the anomaly detector
\* the keys a run with min_history_days flags: the detector's flagged points
\* after the training prefix of each combination it scores
FlaggedKeys(min_history_days) ==
    {<<r.ts_date, r.cloud, r.team, r.service, r.env>> :
        r \in UNION {IF \/ combo \in ecod.failing
                        \/ Len(Frame(combo)) < min_history_days
                        \/ ZeroVariance(Frame(combo))
                     THEN {}
                     ELSE TestPoints(combo, min_history_days) \cap ecod.flagged :
                     combo \in {Combo(x) : x \in BagToSet(agg)}}}

\* C29: recompute_cost_anomalies deletes no CostAnomaly row and changes no row
\* whose (date, provider, team, service, env) key it does not flag in the run:
\* an anomaly written by an earlier run is still stored, unchanged, after a
\* later run in which its day is not flagged.
C29_UnflaggedRowsKept ==
    [][call'.op = "anomalies" =>
          /\ BagSize(anoms') >= BagSize(anoms)
          /\ \A x \in BagToSet(anoms) :
                 /\ \E kept \in BagToSet(anoms') : AnomalyKey(kept) = AnomalyKey(x)
                 /\ AnomalyKey(x) \notin FlaggedKeys(call'.min_history_days) =>
                        /\ x \in BagToSet(anoms')
                        /\ anoms'[x] = anoms[x]]_vars

\* a second run returned, flagging less than the store holds: an anomaly of an
\* earlier run is stored for a day this run did not flag
C29_Witness ==
    /\ call.op = "anomalies"
    /\ repeat
    /\ \E x \in BagToSet(anoms) : AnomalyKey(x) \notin FlaggedKeys(call.min_history_days)
    /\ \E x \in BagToSet(anoms) : AnomalyKey(x) \in FlaggedKeys(call.min_history_days)

\* ---------------------------------------------------------------- the two budget classifiers
\* get_kpi_summary, lines 100-105: projected > 1.1 * budget, projected > 0.9 *
\* budget, else
overview_status(projected, monthly_budget) ==
    IF 10 * projected > 11 * monthly_budget THEN "over"
    ELSE IF 10 * projected > 9 * monthly_budget THEN "at_risk"
    ELSE "under"

\* One projected cost and one monthly budget given to both classifiers.
Classify(projected, monthly_budget) ==
    /\ call' = [op |-> "classify", projected |-> projected,
                monthly_budget |-> monthly_budget,
                overview |-> overview_status(projected, monthly_budget),
                budget_statuses |-> BudgetStatus(Ratio(projected, 1), monthly_budget)]
    /\ repeat' = FALSE
    /\ UNCHANGED costVars
    /\ UNCHANGED otherVars

MaxProjected == 40

ClassifiedBudgets == {10, 20, 30}

InitClassify ==
    /\ CostIdle
    /\ today = 1
    /\ OthersIdle

NextClassify ==
    \E projected \in 0..MaxProjected, monthly_budget \in ClassifiedBudgets :
        Classify(projected, monthly_budget)

SpecClassify == InitClassify /\ [][NextClassify]_vars

\* ---------------------------------------------------------------- classifier claims
\* the bucket of budget_statuses an overview status names
Bucket(status) ==
    IF status = "over" THEN "OVER" ELSE IF status = "at_risk" THEN "AT_RISK" ELSE "UNDER"

\* C30: for every projected cost and monthly budget the overview KPI summary
\* and budget_statuses give the same bucket, at projected = 0.9 * budget and
\* projected = 1.1 * budget included.
C30_ClassifiersAgree ==
    call.op = "classify" => Bucket(call.overview) = call.budget_statuses

====
